---- MODULE Spec2Model ----
(***************************************************************************)
(* A model of the todo task tracker: the Task record and its JSON          *)
(* encoding (task.rs, color.rs), the persistence engine with its backup    *)
(* rotation and rollback over the file system (file_io.rs) and the         *)
(* per-invocation control flow of main (main.rs).                          *)
(*                                                                         *)
(* Strings are sequences of one-character strings, Option<T> is a sequence *)
(* of length 0 (None) or 1 (Some), a calendar date is a record [y, m, d].  *)
(***************************************************************************)
EXTENDS Integers, Sequences, FiniteSets, TLC

VARIABLES
    fs,         \* the file system below the data directory: [dir, file]
    tasks,      \* main.rs:19    let mut tasks: Vec<Task>
    result,     \* the Result of the last call of file_io: "Ok" or the error's variant
    lastOp,     \* history: the engine operation that acted last
    pre,        \* history: fs when the last operation (or invocation) began
    saved,      \* history: the collections saved so far on a fresh path, S1 .. Sn
    nroll,      \* history: the number of rollbacks made since the last of those saves
    phase,      \* history: "saving", "rolling" or "mixed"
    pc,         \* the place the running process has reached
    loop_i,     \* i, the loop variable of create_backup and roll_back_file
    data_json,  \* file_io.rs:67   the text save_file writes
    runs,       \* the number of processes started so far
    faults,     \* the number of kills and failed file operations so far
    command,    \* main.rs:33     the command argument, None when there is none
    args_iter,  \* main.rs:30-31  the arguments after the command
    command_result, \* main.rs:43 result, "none" before the command has run
    save_flag,  \* main.rs:69
    undo_flag,  \* main.rs:68
    nsave,      \* history: the calls of save_file made by the running process
    nrollback,  \* history: the calls of roll_back_file made by the running process
    exit_code,  \* the exit code of the process, -1 while it runs
    before,     \* history: tasks when the last call of a command of task.rs began
    ncalls,     \* the number of calls of commands of task.rs made on tasks so far
    procs,      \* the processes that run at the same time, each with its place and locals
    concurrent  \* history: a process took a step while another was between load and exit

vars == <<fs, tasks, result, lastOp, pre, saved, nroll, phase, pc, loop_i, data_json, runs,
          faults, command, args_iter, command_result, save_flag, undo_flag, nsave, nrollback,
          exit_code, before, ncalls, procs, concurrent>>

\* the variables of main's dispatch
mainVars == <<command, args_iter, command_result, save_flag, undo_flag, nsave, nrollback, exit_code>>

\* the variables of the step by step run of a process
stepVars == <<pc, loop_i, data_json, runs, faults>>

\* the variables that record a run of saves and rollbacks on a fresh path
scenarioVars == <<saved, nroll, phase>>

\* the variables that record the calls of the commands of task.rs
callVars == <<before, ncalls>>

\* the variables of the processes that run at the same time
raceVars == <<procs, concurrent>>

\* no process runs beside the one of main
NoProcs == <<>>

-----------------------------------------------------------------------------
(* Option<T>                                                               *)

None == <<>>

Some(v) == <<v>>

is_none(o) == o = <<>>

is_some(o) == o # <<>>

unwrap(o) == o[1]

-----------------------------------------------------------------------------
(* Strings                                                                 *)

QUOTE == "\""

BACKSLASH == "\\"

NEWLINE == "\n"

SPACE == " "

RECURSIVE Concat(_)
\* the concatenation of a sequence of strings
Concat(ss) == IF ss = <<>> THEN <<>> ELSE Head(ss) \o Concat(Tail(ss))

RECURSIVE join(_, _)
\* [String]::join(sep)
join(ss, sep) ==
    IF ss = <<>> THEN <<>>
    ELSE IF Len(ss) = 1 THEN ss[1]
    ELSE ss[1] \o sep \o join(Tail(ss), sep)

DIGITS == <<"0", "1", "2", "3", "4", "5", "6", "7", "8", "9">>

IsDigit(c) == \E k \in 1..10 : DIGITS[k] = c

DigitValue(c) == (CHOOSE k \in 1..10 : DIGITS[k] = c) - 1

RECURSIVE ParseNat(_, _)
\* the value of a non-empty string of decimal digits, acc being the value so far
ParseNat(s, acc) ==
    IF s = <<>> THEN acc ELSE ParseNat(Tail(s), 10 * acc + DigitValue(Head(s)))

AllDigits(s) == s # <<>> /\ \A k \in 1..Len(s) : IsDigit(s[k])

\* n written with at least w decimal digits, zero padded ({:0w})
RECURSIVE ZeroPad(_, _)
ZeroPad(n, w) ==
    IF n < 10 /\ w <= 1 THEN <<DIGITS[n + 1]>>
    ELSE ZeroPad(n \div 10, w - 1) \o <<DIGITS[(n % 10) + 1]>>

-----------------------------------------------------------------------------
(* Calendar dates (chrono::NaiveDate)                                      *)

IsLeap(y) == (y % 4 = 0 /\ y % 100 # 0) \/ y % 400 = 0

DaysInMonth(y, m) ==
    IF m = 2 THEN (IF IsLeap(y) THEN 29 ELSE 28)
    ELSE IF m \in {4, 6, 9, 11} THEN 30 ELSE 31

\* NaiveDate::from_ymd_opt
from_ymd_opt(y, m, d) ==
    IF m \in 1..12 /\ d >= 1 /\ d <= DaysInMonth(y, m)
    THEN Some([y |-> y, m |-> m, d |-> d])
    ELSE None

\* Ord for NaiveDate
DateLess(a, b) ==
    \/ a.y < b.y
    \/ a.y = b.y /\ a.m < b.m
    \/ a.y = b.y /\ a.m = b.m /\ a.d < b.d

\* the text of a date, YYYY-MM-DD (years 0..9999)
FormatDate(dt) == ZeroPad(dt.y, 4) \o <<"-">> \o ZeroPad(dt.m, 2) \o <<"-">> \o ZeroPad(dt.d, 2)

\* the positions of the character c in s
Positions(s, c) == {k \in 1..Len(s) : s[k] = c}

\* the date a text of the form Y-M-D denotes: a year of 1 to 4 digits, a month and a
\* day of 1 or 2 digits, and a day that exists in that month
ParseDate(s) ==
    LET dashes == Positions(s, "-")
    IN  IF Cardinality(dashes) # 2 THEN None
        ELSE LET p1 == CHOOSE k \in dashes : \A j \in dashes : k <= j
                 p2 == CHOOSE k \in dashes : \A j \in dashes : k >= j
                 ys == SubSeq(s, 1, p1 - 1)
                 ms == SubSeq(s, p1 + 1, p2 - 1)
                 ds == SubSeq(s, p2 + 1, Len(s))
             IN  IF /\ AllDigits(ys) /\ Len(ys) <= 4
                    /\ AllDigits(ms) /\ Len(ms) <= 2
                    /\ AllDigits(ds) /\ Len(ds) <= 2
                 THEN from_ymd_opt(ParseNat(ys, 0), ParseNat(ms, 0), ParseNat(ds, 0))
                 ELSE None

-----------------------------------------------------------------------------
(* Colors                                                                  *)

\* the variants of Color in declaration order
Color == <<"Red", "Yellow", "Green", "Blue", "Purple">>

Colors == {Color[k] : k \in 1..Len(Color)}

\* the derived Ord of Color: the position of the variant in the declaration
ColorOrdinal(c) == (CHOOSE k \in 1..Len(Color) : Color[k] = c) - 1

\* the variant's name as serde writes it
ColorName(c) ==
    CASE c = "Red" -> <<"R", "e", "d">>
      [] c = "Yellow" -> <<"Y", "e", "l", "l", "o", "w">>
      [] c = "Green" -> <<"G", "r", "e", "e", "n">>
      [] c = "Blue" -> <<"B", "l", "u", "e">>
      [] c = "Purple" -> <<"P", "u", "r", "p", "l", "e">>

\* the variant a name denotes, if any
ColorFromName(s) ==
    IF \E c \in Colors : ColorName(c) = s
    THEN Some(CHOOSE c \in Colors : ColorName(c) = s)
    ELSE None

-----------------------------------------------------------------------------
(* Task                                                                    *)

\* struct Task
Task(name, creation_date, due_date, color, note) ==
    [name |-> name, creation_date |-> creation_date, due_date |-> due_date,
     color |-> color, note |-> note]

\* Task::new, today being the local date
Task_new(name, today) == Task(name, today, None, None, <<>>)

-----------------------------------------------------------------------------
(* The commands (task.rs).  args is the sequence of the argument strings   *)
(* that follow the command; a command returns its Result and the tasks it  *)
(* leaves.                                                                 *)

\* a Result<(), ArgError> together with the tasks the call leaves behind
ArgOk(ts) == [result |-> "Ok", tasks |-> ts]

ArgErr(e, ts) == [result |-> e, tasks |-> ts]

RECURSIVE StripZeros(_)
\* the digits s without the zeros in front
StripZeros(s) == IF s # <<>> /\ Head(s) = "0" THEN StripZeros(Tail(s)) ELSE s

RECURSIVE DigitsLeq(_, _)
\* a <= b for two numbers written with the same number of digits
DigitsLeq(a, b) ==
    IF a = <<>> THEN TRUE
    ELSE IF DigitValue(Head(a)) # DigitValue(Head(b)) THEN DigitValue(Head(a)) < DigitValue(Head(b))
    ELSE DigitsLeq(Tail(a), Tail(b))

\* usize::MAX of a 64-bit target, 2^64 - 1, in digits
usize_MAX ==
    <<"1", "8", "4", "4", "6", "7", "4", "4", "0", "7", "3", "7", "0", "9", "5", "5", "1", "6", "1", "5">>

\* the number written by the digits s is at most usize::MAX
FitsUsize(s) ==
    LET t == StripZeros(s)
    IN  Len(t) < Len(usize_MAX) \/ (Len(t) = Len(usize_MAX) /\ DigitsLeq(t, usize_MAX))

\* parse_usize as a parse of a number above 0 (NonZeroUsize): 0 is not one
parse_usize_nonzero(s) ==
    LET digits == IF s # <<>> /\ Head(s) = "+" THEN Tail(s) ELSE s
        t == StripZeros(digits)
    IN  IF AllDigits(digits) /\ FitsUsize(digits) /\ t # <<>>
        THEN Some(IF Len(t) > 9 THEN 1000000000 ELSE ParseNat(t, 0))
        ELSE None

\* str::parse::<usize>: decimal digits, with an optional + in front, that write a number
\* up to usize::MAX.  A number of ten digits or more is given as 10^9: the source
\* compares the number with the length of the list, and with nothing else
parse_usize(s) ==
    LET digits == IF s # <<>> /\ Head(s) = "+" THEN Tail(s) ELSE s
        t == StripZeros(digits)
    IN  IF AllDigits(digits) /\ FitsUsize(digits)
        THEN Some(IF Len(t) > 9 THEN 1000000000 ELSE ParseNat(t, 0))
        ELSE None

\* the ArgMissing errors, told apart by the argument they name
ArgMissing_task_id == "ArgMissing(task id)"

ArgMissing_task_name == "ArgMissing(task name)"

ArgMissing_date == "ArgMissing(date)"

\* parse_task_id without the test task_id == 0
parse_task_id_zero(ts, args) ==
    IF args = <<>> THEN [result |-> ArgMissing_task_id, index |-> 0]
    ELSE LET task_id == parse_usize(Head(args))
         IN  IF is_none(task_id) THEN [result |-> "InvalidTaskId", index |-> 0]
             ELSE IF unwrap(task_id) > Len(ts)
             THEN [result |-> "TaskNotFound", index |-> 0]
             ELSE [result |-> "Ok", index |-> unwrap(task_id)]

\* parse_task_id(tasks, &args_iter.next()): the error, or Ok and the index of the task,
\* which is 1-based here and 0-based (task_id - 1) in the source
parse_task_id(ts, args) ==
    IF args = <<>> THEN [result |-> ArgMissing_task_id, index |-> 0]
    ELSE LET task_id == parse_usize(Head(args))
         IN  IF is_none(task_id) THEN [result |-> "InvalidTaskId", index |-> 0]
             ELSE IF unwrap(task_id) > Len(ts) \/ unwrap(task_id) = 0
             THEN [result |-> "TaskNotFound", index |-> 0]
             ELSE [result |-> "Ok", index |-> unwrap(task_id)]

\* check_for_more_args(args_iter)
check_for_more_args(args) ==
    IF join(args, <<SPACE>>) = <<>> THEN "Ok" ELSE "TooManyArgs"

\* list_tasks
list_tasks(ts, args) == [result |-> check_for_more_args(args), tasks |-> ts]

\* create_task with the new task put in front of the others
create_task_front(ts, args, today) ==
    LET task_name == join(args, <<SPACE>>)
    IN  IF task_name = <<>> THEN ArgErr(ArgMissing_task_name, ts)
        ELSE ArgOk(<<Task_new(task_name, today)>> \o ts)

\* create_task, today being the local date
create_task(ts, args, today) ==
    LET task_name == join(args, <<SPACE>>)
    IN  IF task_name = <<>> THEN ArgErr(ArgMissing_task_name, ts)
        ELSE ArgOk(Append(ts, Task_new(task_name, today)))

\* show_task
show_task(ts, args) ==
    LET id == parse_task_id(ts, args)
    IN  IF id.result # "Ok" THEN ArgErr(id.result, ts)
        ELSE [result |-> check_for_more_args(Tail(args)), tasks |-> ts]

\* Vec::swap_remove(index): the last task takes the place of the removed one
swap_remove(ts, index) ==
    IF index = Len(ts) THEN SubSeq(ts, 1, Len(ts) - 1)
    ELSE SubSeq([ts EXCEPT ![index] = ts[Len(ts)]], 1, Len(ts) - 1)

\* Vec::remove(index)
remove(ts, index) == SubSeq(ts, 1, index - 1) \o SubSeq(ts, index + 1, Len(ts))

\* delete_task
delete_task(ts, args) ==
    LET id == parse_task_id(ts, args)
    IN  IF id.result # "Ok" THEN ArgErr(id.result, ts)
        ELSE IF check_for_more_args(Tail(args)) # "Ok" THEN ArgErr("TooManyArgs", ts)
        ELSE ArgOk(remove(ts, id.index))

\* the match on the color string with the name of a color in the place of "red"
color_of_string_name(s) ==
    CASE s \in {<<"r", "e", "d">>, <<"R", "e", "d">>} -> Some(Some("Red"))
      [] s = <<"y", "e", "l", "l", "o", "w">> -> Some(Some("Yellow"))
      [] s = <<"g", "r", "e", "e", "n">> -> Some(Some("Green"))
      [] s = <<"b", "l", "u", "e">> -> Some(Some("Blue"))
      [] s = <<"p", "u", "r", "p", "l", "e">> -> Some(Some("Purple"))
      [] s = <<"c", "l", "e", "a", "r">> -> Some(None)
      [] OTHER -> None

\* the match on the color string in set_task_color: Some(color to set), or None for
\* a string that names no color
color_of_string(s) ==
    CASE s = <<"r", "e", "d">> -> Some(Some("Red"))
      [] s = <<"y", "e", "l", "l", "o", "w">> -> Some(Some("Yellow"))
      [] s = <<"g", "r", "e", "e", "n">> -> Some(Some("Green"))
      [] s = <<"b", "l", "u", "e">> -> Some(Some("Blue"))
      [] s = <<"p", "u", "r", "p", "l", "e">> -> Some(Some("Purple"))
      [] s = <<"c", "l", "e", "a", "r">> -> Some(None)
      [] OTHER -> None

\* set_task_color with the color set before check_for_more_args is called
set_task_color_early(ts, args) ==
    LET id == parse_task_id(ts, args)
    IN  IF id.result # "Ok" THEN ArgErr(id.result, ts)
        ELSE IF Len(args) < 2 THEN ArgErr(ArgMissing_task_name, ts)
        ELSE LET color == color_of_string(args[2])
             IN  IF is_none(color) THEN ArgErr("InvalidColor", ts)
                 ELSE IF check_for_more_args(SubSeq(args, 3, Len(args))) # "Ok"
                 THEN ArgErr("TooManyArgs", [ts EXCEPT ![id.index].color = unwrap(color)])
                 ELSE ArgOk([ts EXCEPT ![id.index].color = unwrap(color)])

\* set_task_color
set_task_color(ts, args) ==
    LET id == parse_task_id(ts, args)
    IN  IF id.result # "Ok" THEN ArgErr(id.result, ts)
        ELSE IF Len(args) < 2 THEN ArgErr(ArgMissing_task_name, ts)
        ELSE LET color == color_of_string(args[2])
             IN  IF is_none(color) THEN ArgErr("InvalidColor", ts)
                 ELSE IF check_for_more_args(SubSeq(args, 3, Len(args))) # "Ok"
                 THEN ArgErr("TooManyArgs", ts)
                 ELSE ArgOk([ts EXCEPT ![id.index].color = unwrap(color)])

\* add_note with the note put in the place of the one the task has
add_note_overwrite(ts, args) ==
    LET id == parse_task_id(ts, args)
    IN  IF id.result # "Ok" THEN ArgErr(id.result, ts)
        ELSE LET note == join(Tail(args), <<SPACE>>)
             IN  IF note = <<"c", "l", "e", "a", "r">>
                 THEN ArgOk([ts EXCEPT ![id.index].note = <<>>])
                 ELSE ArgOk([ts EXCEPT ![id.index].note = note])

\* add_note
add_note(ts, args) ==
    LET id == parse_task_id(ts, args)
    IN  IF id.result # "Ok" THEN ArgErr(id.result, ts)
        ELSE LET note == join(Tail(args), <<SPACE>>)
                 old == ts[id.index].note
             IN  IF note = <<"c", "l", "e", "a", "r">>
                 THEN ArgOk([ts EXCEPT ![id.index].note = <<>>])
                 ELSE ArgOk([ts EXCEPT ![id.index].note =
                                (IF old # <<>> THEN old \o <<NEWLINE>> ELSE old) \o note])

\* the number of a date in the order of the calendar
DateOrdinal(dt) == (dt.y * 12 + (dt.m - 1)) * 31 + dt.d

\* the key of the pass-th sort of sort_tasks, as a number in the order of the key:
\* due_date, due_date.is_none(), color, color.is_none()  (None < Some, false < true)
sort_key(pass, t) ==
    CASE pass = 1 -> IF is_none(t.due_date) THEN 0 ELSE 1 + DateOrdinal(unwrap(t.due_date))
      [] pass = 2 -> IF is_none(t.due_date) THEN 1 ELSE 0
      [] pass = 3 -> IF is_none(t.color) THEN 0 ELSE 1 + ColorOrdinal(unwrap(t.color))
      [] pass = 4 -> IF is_none(t.color) THEN 1 ELSE 0

RECURSIVE insert_sorted(_, _, _)
\* t put behind the last element of the sorted ts whose key is not greater
insert_sorted(ts, t, pass) ==
    IF ts = <<>> THEN <<t>>
    ELSE IF sort_key(pass, ts[Len(ts)]) <= sort_key(pass, t) THEN Append(ts, t)
    ELSE Append(insert_sorted(SubSeq(ts, 1, Len(ts) - 1), t, pass), ts[Len(ts)])

RECURSIVE sort_by_key_unstable(_, _)
\* sort_by_key with the last sort of sort_tasks turning round the tasks that tie
sort_by_key_unstable(ts, pass) ==
    IF ts = <<>> THEN <<>>
    ELSE LET t == ts[Len(ts)]
             sorted == sort_by_key_unstable(SubSeq(ts, 1, Len(ts) - 1), pass)
             Below(x) == sort_key(pass, x) < sort_key(pass, t)
             NotBelow(x) == ~Below(x)
         IN  IF pass = 4 THEN SelectSeq(sorted, Below) \o <<t>> \o SelectSeq(sorted, NotBelow)
             ELSE insert_sorted(sorted, t, pass)

RECURSIVE sort_by_key(_, _)
\* slice::sort_by_key and sort_by: a stable sort by the key of the pass
sort_by_key(ts, pass) ==
    IF ts = <<>> THEN <<>>
    ELSE insert_sorted(sort_by_key(SubSeq(ts, 1, Len(ts) - 1), pass), ts[Len(ts)], pass)

\* sort_tasks without its last sort, by color.is_none()
sort_tasks_three(ts, args) ==
    IF check_for_more_args(args) # "Ok" THEN ArgErr("TooManyArgs", ts)
    ELSE ArgOk(sort_by_key(sort_by_key(sort_by_key(ts, 1), 2), 3))

\* sort_tasks
sort_tasks(ts, args) ==
    IF check_for_more_args(args) # "Ok" THEN ArgErr("TooManyArgs", ts)
    ELSE ArgOk(sort_by_key(sort_by_key(sort_by_key(sort_by_key(ts, 1), 2), 3), 4))

\* NaiveDate::parse_from_str(date_string, "%Y-%m-%d")
parse_from_str(s) == ParseDate(s)

\* add_duedate
add_duedate(ts, args) ==
    LET id == parse_task_id(ts, args)
    IN  IF id.result # "Ok" THEN ArgErr(id.result, ts)
        ELSE IF Len(args) < 2 THEN ArgErr(ArgMissing_date, ts)
        ELSE LET due_date == parse_from_str(args[2])
             IN  IF is_none(due_date) THEN ArgErr("IncorrectDateFormat", ts)
                 ELSE IF check_for_more_args(SubSeq(args, 3, Len(args))) # "Ok"
                 THEN ArgErr("TooManyArgs", ts)
                 ELSE ArgOk([ts EXCEPT ![id.index].due_date = due_date])

\* show_help
show_help(ts, args) == [result |-> check_for_more_args(args), tasks |-> ts]

\* rename_task with a new task of the new name put in the place of the task
rename_task_new(ts, args) ==
    LET id == parse_task_id(ts, args)
    IN  IF id.result # "Ok" THEN ArgErr(id.result, ts)
        ELSE ArgOk([ts EXCEPT ![id.index] =
                       Task_new(join(Tail(args), <<SPACE>>), [y |-> 2025, m |-> 12, d |-> 12])])

\* rename_task
rename_task(ts, args) ==
    LET id == parse_task_id(ts, args)
    IN  IF id.result # "Ok" THEN ArgErr(id.result, ts)
        ELSE ArgOk([ts EXCEPT ![id.index].name = join(Tail(args), <<SPACE>>)])

-----------------------------------------------------------------------------
(* The JSON encoding of the task list (serde_json, derive(Serialize,      *)
(* Deserialize) on Task and Color).  A document is the sequence of the     *)
(* encoded objects; an encoded object gives the JSON text of each field.   *)

JSON_NULL == <<"n", "u", "l", "l">>

\* EscapeChar without the escape of the line break
EscapeChar_raw(c) ==
    CASE c = QUOTE -> <<BACKSLASH, QUOTE>>
      [] c = BACKSLASH -> <<BACKSLASH, BACKSLASH>>
      [] OTHER -> <<c>>

\* the JSON text of one character of a string
EscapeChar(c) ==
    CASE c = QUOTE -> <<BACKSLASH, QUOTE>>
      [] c = BACKSLASH -> <<BACKSLASH, BACKSLASH>>
      [] c = NEWLINE -> <<BACKSLASH, "n">>
      [] OTHER -> <<c>>

\* the JSON text of a string: quoted, with quote, backslash and line break escaped
JsonString(s) == <<QUOTE>> \o Concat([k \in 1..Len(s) |-> EscapeChar(s[k])]) \o <<QUOTE>>

RECURSIVE Unescape(_)
\* the string the inside of a JSON string literal denotes, None when it is malformed
Unescape(t) ==
    IF t = <<>> THEN Some(<<>>)
    ELSE IF Head(t) = BACKSLASH
    THEN IF Len(t) < 2 \/ t[2] \notin {"n", QUOTE, BACKSLASH} THEN None
         ELSE LET rest == Unescape(SubSeq(t, 3, Len(t)))
                  c == IF t[2] = "n" THEN NEWLINE ELSE t[2]
              IN  IF is_none(rest) THEN None ELSE Some(<<c>> \o unwrap(rest))
    ELSE IF Head(t) \in {QUOTE, NEWLINE} THEN None
    ELSE LET rest == Unescape(Tail(t))
         IN  IF is_none(rest) THEN None ELSE Some(<<Head(t)>> \o unwrap(rest))

\* the string a JSON text denotes, None when the text is not a string literal
ParseJsonString(t) ==
    IF Len(t) >= 2 /\ t[1] = QUOTE /\ t[Len(t)] = QUOTE
    THEN Unescape(SubSeq(t, 2, Len(t) - 1))
    ELSE None

SerializeDate(dt) == JsonString(FormatDate(dt))

SerializeColor(c) == JsonString(ColorName(c))

\* Deserialize for NaiveDate: Some(date), or None when the text is no date
DeserializeDate(t) ==
    LET s == ParseJsonString(t)
    IN  IF is_none(s) THEN None ELSE ParseDate(unwrap(s))

\* Deserialize for Color
DeserializeColor(t) ==
    LET s == ParseJsonString(t)
    IN  IF is_none(s) THEN None ELSE ColorFromName(unwrap(s))

\* derive(Serialize) for Task
SerializeTask(t) ==
    [name |-> JsonString(t.name),
     creation_date |-> SerializeDate(t.creation_date),
     due_date |-> IF is_none(t.due_date) THEN JSON_NULL
                  ELSE SerializeDate(unwrap(t.due_date)),
     color |-> IF is_none(t.color) THEN JSON_NULL ELSE SerializeColor(unwrap(t.color)),
     note |-> JsonString(t.note)]

\* derive(Deserialize) for Task: Some(task), or None when a field does not decode
DeserializeTask(o) ==
    LET name == ParseJsonString(o.name)
        creation_date == DeserializeDate(o.creation_date)
        due_date == IF o.due_date = JSON_NULL THEN Some(None)
                    ELSE LET dd == DeserializeDate(o.due_date)
                         IN  IF is_none(dd) THEN None ELSE Some(dd)
        color == IF o.color = JSON_NULL THEN Some(None)
                 ELSE LET cc == DeserializeColor(o.color)
                      IN  IF is_none(cc) THEN None ELSE Some(cc)
        note == ParseJsonString(o.note)
    IN  IF is_none(name) \/ is_none(creation_date) \/ is_none(due_date)
           \/ is_none(color) \/ is_none(note)
        THEN None
        ELSE Some(Task(unwrap(name), unwrap(creation_date), unwrap(due_date),
                       unwrap(color), unwrap(note)))

\* serde_json::to_string(&tasks)
to_string(ts) == [k \in 1..Len(ts) |-> SerializeTask(ts[k])]

\* serde_json::from_str::<Vec<Task>>: Some(tasks), or None for a Deserialize error
from_str(doc) ==
    IF \E k \in 1..Len(doc) : is_none(DeserializeTask(doc[k]))
    THEN None
    ELSE Some([k \in 1..Len(doc) |-> unwrap(DeserializeTask(doc[k]))])

-----------------------------------------------------------------------------
(* The file system.  A file is absent, empty (created and not yet          *)
(* written), partial (a write that was cut short) or complete; the files   *)
(* are the primary file and the backups with extensions 000 .. 010.        *)

\* let max_undos = 10
max_undos == 10

\* the path of the primary file, get_filename()
filename == -1

\* filename.set_extension(format!("{:03}", i)): the path of backup i
with_extension(i) == i

Paths == {filename} \cup {with_extension(i) : i \in 0..max_undos}

NoFile == [state |-> "absent", doc |-> <<>>]

EmptyFile == [state |-> "empty", doc |-> <<>>]

CompleteFile(doc) == [state |-> "complete", doc |-> doc]

PartialFile(doc) == [state |-> "partial", doc |-> doc]

\* the file a completed save of the collection ts leaves at the primary path
Holds(ts) == CompleteFile(to_string(ts))

\* Path::exists
exists(files, p) == files[p].state # "absent"

\* a Result<(), FileError> together with the files the call leaves behind
FileOk(files) == [result |-> "Ok", files |-> files]

FileErr(e, files) == [result |-> e, files |-> files]

\* rename as a copy: from is left in place
rename_copy(files, from, to) ==
    IF exists(files, from)
    THEN FileOk([files EXCEPT ![to] = files[from]])
    ELSE FileErr("Io", files)

\* std::fs::rename(from, to).map_err(FileError::Io): to is replaced; a missing from is
\* an error (ENOENT)
rename(files, from, to) ==
    IF exists(files, from)
    THEN FileOk([files EXCEPT ![to] = files[from], ![from] = NoFile])
    ELSE FileErr("Io", files)

\* the body of the loop of create_backup for one i
backup_shift(files, i) ==
    IF exists(files, with_extension(i))
    THEN rename(files, with_extension(i), with_extension(i + 1))
    ELSE FileOk(files)

RECURSIVE backup_loop(_, _)
\* for i in (0..max_undos).rev(), from i downwards; an error ends the loop
backup_loop(files, i) ==
    IF i < 0 THEN FileOk(files)
    ELSE LET r == backup_shift(files, i)
         IN  IF r.result # "Ok" THEN r ELSE backup_loop(r.files, i - 1)

\* backup_newest without the rename: the primary file is overwritten in place
backup_newest_lost(files) == FileOk(files)

\* the last step of create_backup: the primary file becomes backup 000
backup_newest(files) ==
    IF exists(files, filename)
    THEN rename(files, filename, with_extension(0))
    ELSE FileOk(files)

\* create_backup
create_backup(files) ==
    LET r == backup_loop(files, max_undos - 1)
    IN  IF r.result # "Ok" THEN r ELSE backup_newest(r.files)

\* File::create(filename): the file exists and is empty
File_create(files) == FileOk([files EXCEPT ![filename] = EmptyFile])

\* write!(file, "{data_json}")
File_write(files, text) == FileOk([files EXCEPT ![filename] = CompleteFile(text)])

\* save_file, the file system carrying out every operation asked of it
save_file(f, ts) ==
    LET text == to_string(ts)
        backed == create_backup(f.file)
        created == File_create(backed.files)
        written == File_write(created.files, text)
    IN  IF backed.result # "Ok"
        THEN [result |-> backed.result, fs |-> [dir |-> TRUE, file |-> backed.files]]
        ELSE [result |-> written.result, fs |-> [dir |-> TRUE, file |-> written.files]]

\* rollback_newest without the error: a missing backup 000 is passed over
rollback_newest_skip(files) ==
    IF exists(files, with_extension(0))
    THEN rename(files, with_extension(0), filename)
    ELSE FileOk(files)

\* the first pass of the loop of roll_back_file (i = 0): backup 000 becomes the primary
rollback_newest(files) ==
    IF exists(files, with_extension(0))
    THEN rename(files, with_extension(0), filename)
    ELSE FileErr("BackupMissing", files)

\* rollback_shift without the rename: the older backups stay where they are
rollback_shift_stays(files, i) == FileOk(files)

\* the body of the loop of roll_back_file for one i >= 1
rollback_shift(files, i) ==
    IF exists(files, with_extension(i))
    THEN rename(files, with_extension(i), with_extension(i - 1))
    ELSE FileOk(files)

RECURSIVE rollback_loop_short(_, _)
\* the loop of roll_back_file as for i in 0..max_undos, without the pass of the oldest
rollback_loop_short(files, i) ==
    IF i > max_undos - 1 THEN FileOk(files)
    ELSE LET r == IF i = 0 THEN rollback_newest(files) ELSE rollback_shift(files, i)
         IN  IF r.result # "Ok" THEN r ELSE rollback_loop_short(r.files, i + 1)

RECURSIVE rollback_loop(_, _)
\* for i in 0..max_undos+1, from i upwards; an error ends the loop
rollback_loop(files, i) ==
    IF i > max_undos THEN FileOk(files)
    ELSE LET r == IF i = 0 THEN rollback_newest(files) ELSE rollback_shift(files, i)
         IN  IF r.result # "Ok" THEN r ELSE rollback_loop(r.files, i + 1)

\* roll_back_file without the passes that shift the older backups
roll_back_file_newest(f) ==
    LET r == rollback_newest(f.file)
    IN  [result |-> r.result, fs |-> [f EXCEPT !.file = r.files]]

\* roll_back_file, the file system carrying out every operation asked of it
roll_back_file(f) ==
    LET r == rollback_loop(f.file, 0)
    IN  [result |-> r.result, fs |-> [f EXCEPT !.file = r.files]]

\* load_tasks without the test for the file: reading a missing file is an error
load_tasks_strict(f, ts) ==
    LET file == f.file[filename]
        loaded_tasks == IF file.state = "complete" THEN from_str(file.doc) ELSE None
    IN  IF ~exists(f.file, filename) THEN [result |-> "Io", tasks |-> ts]
        ELSE IF is_none(loaded_tasks) THEN [result |-> "Deserialize", tasks |-> ts]
        ELSE [result |-> "Ok", tasks |-> ts \o unwrap(loaded_tasks)]

\* load_tasks: the tasks of the primary file are appended to ts
load_tasks(f, ts) ==
    IF exists(f.file, filename)
    THEN LET file == f.file[filename]
             loaded_tasks == IF file.state = "complete" THEN from_str(file.doc) ELSE None
         IN  IF is_none(loaded_tasks)
             THEN [result |-> "Deserialize", tasks |-> ts]
             ELSE [result |-> "Ok", tasks |-> ts \o unwrap(loaded_tasks)]
    ELSE [result |-> "Ok", tasks |-> ts]

\* a path on which nothing was ever saved
FreshFs == [dir |-> FALSE, file |-> [p \in Paths |-> NoFile]]

-----------------------------------------------------------------------------
(* The persistence engine called operation by operation on one path,       *)
(* every file operation succeeding.                                        *)

\* the most saves on a fresh path whose contents are recorded in saved
MaxSaves == 11

Day1 == [y |-> 2024, m |-> 2, d |-> 29]

Day2 == [y |-> 2025, m |-> 12, d |-> 12]

\* the collections handed to save_file
EngineInputs ==
    {<<>>,
     <<Task_new(<<"a">>, Day1)>>}

EngineInit ==
    /\ fs = FreshFs
    /\ tasks = <<>>
    /\ result = "Ok"
    /\ lastOp = "none"
    /\ pre = FreshFs
    /\ saved = <<>>
    /\ nroll = 0
    /\ phase = "saving"
    /\ pc = "engine"
    /\ loop_i = 0
    /\ data_json = <<>>
    /\ runs = 0
    /\ faults = 0
    /\ command = None
    /\ args_iter = <<>>
    /\ command_result = "none"
    /\ save_flag = FALSE
    /\ undo_flag = FALSE
    /\ nsave = 0
    /\ nrollback = 0
    /\ exit_code = -1
    /\ before = <<>>
    /\ ncalls = 0
    /\ procs = NoProcs
    /\ concurrent = FALSE

\* save_file(&filename, &ts)
EngineSave(ts) ==
    LET r == save_file(fs, ts)
    IN  /\ fs' = r.fs
        /\ result' = r.result
        /\ tasks' = ts
        /\ lastOp' = "save"
        /\ pre' = fs
        /\ IF phase = "saving" /\ Len(saved) < MaxSaves
           THEN /\ saved' = Append(saved, ts)
                /\ phase' = "saving"
           ELSE /\ saved' = <<>>
                /\ phase' = "mixed"
        /\ nroll' = 0
        /\ UNCHANGED <<stepVars, mainVars, callVars, raceVars>>

\* roll_back_file(&filename)
EngineRollback ==
    LET r == roll_back_file(fs)
    IN  /\ fs' = r.fs
        /\ result' = r.result
        /\ lastOp' = "rollback"
        /\ pre' = fs
        /\ IF phase \in {"saving", "rolling"} /\ nroll < Len(saved)
           THEN /\ phase' = "rolling"
                /\ nroll' = nroll + 1
                /\ saved' = saved
           ELSE /\ phase' = "mixed"
                /\ nroll' = 0
                /\ saved' = <<>>
        /\ UNCHANGED <<tasks, stepVars, mainVars, callVars, raceVars>>

EngineNext ==
    \/ \E ts \in EngineInputs : EngineSave(ts)
    \/ EngineRollback

SpecEngine == EngineInit /\ [][EngineNext]_vars

-----------------------------------------------------------------------------
(* One process after the other on one path, step by step: load_tasks, the  *)
(* command (which leaves a collection to save, asks for the undo, or       *)
(* neither), then save_file or roll_back_file one file operation at a      *)
(* time.  A process can be killed between any two steps, and any file      *)
(* operation can fail.                                                     *)

\* the most processes run one after the other
MaxRuns == 3

\* the most kills and failed file operations
MaxFaults == 2

\* the collection the k-th save of a history writes
HistoryInput(k) ==
    IF k % 2 = 1 THEN <<Task_new(<<"a">>, Day1)>> ELSE <<>>

\* the file system after the successful saves of the collections cs, in this order, on
\* a fresh path: the primary file holds the last collection saved and backup p the
\* one saved p + 1 saves earlier
FsAfter(cs) ==
    [dir |-> cs # <<>>,
     file |-> [p \in Paths |->
                 IF cs = <<>> THEN NoFile
                 ELSE IF p = filename THEN Holds(cs[Len(cs)])
                 ELSE IF p <= Len(cs) - 2 THEN Holds(cs[Len(cs) - 1 - p])
                 ELSE NoFile]]

\* the file system after k successful saves on a fresh path
AfterSaves(k) == FsAfter([j \in 1..k |-> HistoryInput(j)])

\* the numbers of earlier saves the first process may find
Histories == 0..(max_undos + 2)

StepInit ==
    /\ fs \in {AfterSaves(k) : k \in Histories}
    /\ tasks = <<>>
    /\ result = "Ok"
    /\ lastOp = "none"
    /\ pre = fs
    /\ saved = <<>>
    /\ nroll = 0
    /\ phase = "mixed"
    /\ pc = "load"
    /\ loop_i = 0
    /\ data_json = <<>>
    /\ runs = 1
    /\ faults = 0
    /\ command = None
    /\ args_iter = <<>>
    /\ command_result = "none"
    /\ save_flag = FALSE
    /\ undo_flag = FALSE
    /\ nsave = 0
    /\ nrollback = 0
    /\ exit_code = -1
    /\ before = <<>>
    /\ ncalls = 0
    /\ procs = NoProcs
    /\ concurrent = FALSE

\* std::process::exit, or the return of main, after the call that returned r
Exit(r) ==
    /\ pc' = "exit"
    /\ result' = r

\* StepLoad without the exit on a failure of load_tasks
StepLoad_dispatch ==
    /\ pc = "load"
    /\ LET r == load_tasks(fs, tasks)
       IN  /\ tasks' = r.tasks
           /\ result' = r.result
           /\ pc' = "command"
    /\ UNCHANGED <<fs, lastOp, pre, loop_i, data_json, runs, faults, scenarioVars, mainVars, callVars, raceVars>>

\* main.rs:21-28   load_tasks, a failure ends the process
StepLoad ==
    /\ pc = "load"
    /\ LET r == load_tasks(fs, tasks)
       IN  /\ tasks' = r.tasks
           /\ result' = r.result
           /\ pc' = IF r.result = "Ok" THEN "command" ELSE "exit"
    /\ UNCHANGED <<fs, lastOp, pre, loop_i, data_json, runs, faults, scenarioVars, mainVars, callVars, raceVars>>

\* a command that succeeds and leaves the collection ts: save_file begins
StepSave(ts) ==
    /\ pc = "command"
    /\ tasks' = ts
    /\ lastOp' = "save"
    /\ data_json' = to_string(ts)
    /\ pc' = "mkdir"
    /\ UNCHANGED <<fs, result, pre, loop_i, runs, faults, scenarioVars, mainVars, callVars, raceVars>>

\* the undo command: roll_back_file begins
StepUndo ==
    /\ pc = "command"
    /\ lastOp' = "rollback"
    /\ pc' = "rollback"
    /\ loop_i' = 0
    /\ UNCHANGED <<fs, tasks, result, pre, data_json, runs, faults, scenarioVars, mainVars, callVars, raceVars>>

\* a command that neither saves nor rolls back
StepReadOnly ==
    /\ pc = "command"
    /\ Exit("Ok")
    /\ UNCHANGED <<fs, tasks, lastOp, pre, loop_i, data_json, runs, faults, scenarioVars, mainVars, callVars, raceVars>>

\* file_io.rs:70-74   the data directory is created when it is missing
StepCreateDir ==
    /\ pc = "mkdir"
    /\ fs' = [fs EXCEPT !.dir = TRUE]
    /\ pc' = "backup"
    /\ loop_i' = max_undos - 1
    /\ UNCHANGED <<tasks, result, lastOp, pre, data_json, runs, faults, scenarioVars, mainVars, callVars, raceVars>>

\* file_io.rs:92-103   one pass of the loop of create_backup
StepBackupShift ==
    /\ pc = "backup"
    /\ LET r == backup_shift(fs.file, loop_i)
       IN  /\ fs' = [fs EXCEPT !.file = r.files]
           /\ IF r.result # "Ok" THEN Exit(r.result) /\ loop_i' = loop_i
              ELSE /\ result' = result
                   /\ IF loop_i = 0 THEN pc' = "newest" /\ loop_i' = loop_i
                      ELSE pc' = pc /\ loop_i' = loop_i - 1
    /\ UNCHANGED <<tasks, lastOp, pre, data_json, runs, faults, scenarioVars, mainVars, callVars, raceVars>>

\* file_io.rs:105-112   the primary file becomes backup 000
StepBackupNewest ==
    /\ pc = "newest"
    /\ LET r == backup_newest(fs.file)
       IN  /\ fs' = [fs EXCEPT !.file = r.files]
           /\ IF r.result # "Ok" THEN Exit(r.result)
              ELSE pc' = "create" /\ result' = result
    /\ UNCHANGED <<tasks, lastOp, pre, loop_i, data_json, runs, faults, scenarioVars, mainVars, callVars, raceVars>>

\* file_io.rs:80   File::create
StepCreate ==
    /\ pc = "create"
    /\ fs' = [fs EXCEPT !.file = File_create(fs.file).files]
    /\ pc' = "write"
    /\ UNCHANGED <<tasks, result, lastOp, pre, loop_i, data_json, runs, faults, scenarioVars, mainVars, callVars, raceVars>>

\* file_io.rs:81-83   write!, and save_file and main return
StepWrite ==
    /\ pc = "write"
    /\ fs' = [fs EXCEPT !.file = File_write(fs.file, data_json).files]
    /\ Exit("Ok")
    /\ UNCHANGED <<tasks, lastOp, pre, loop_i, data_json, runs, faults, scenarioVars, mainVars, callVars, raceVars>>

\* file_io.rs:119-141   one pass of the loop of roll_back_file
StepRollback ==
    /\ pc = "rollback"
    /\ LET r == IF loop_i = 0 THEN rollback_newest(fs.file) ELSE rollback_shift(fs.file, loop_i)
       IN  /\ fs' = [fs EXCEPT !.file = r.files]
           /\ IF r.result # "Ok" THEN Exit(r.result) /\ loop_i' = loop_i
              ELSE IF loop_i = max_undos THEN Exit("Ok") /\ loop_i' = loop_i
              ELSE pc' = pc /\ result' = result /\ loop_i' = loop_i + 1
    /\ UNCHANGED <<tasks, lastOp, pre, data_json, runs, faults, scenarioVars, mainVars, callVars, raceVars>>

\* the file operation the process is about to ask for fails: the error it is mapped to
FailingOperation ==
    CASE pc = "mkdir" /\ ~fs.dir -> "CreateDir"
      [] pc = "backup" /\ exists(fs.file, with_extension(loop_i)) -> "Io"
      [] pc = "newest" /\ exists(fs.file, filename) -> "Io"
      [] pc = "create" -> "Io"
      [] pc = "write" -> "Io"
      [] pc = "rollback" /\ loop_i = 0 /\ exists(fs.file, with_extension(0)) -> "Io"
      [] pc = "rollback" /\ loop_i > 0 /\ exists(fs.file, with_extension(loop_i)) -> "Io"
      [] OTHER -> "none"

\* StepFail with the primary file created before the directory and the backups are
\* made: a failure then leaves it empty
StepFail_created ==
    /\ faults < MaxFaults
    /\ FailingOperation # "none"
    /\ faults' = faults + 1
    /\ Exit(FailingOperation)
    /\ fs' = IF lastOp = "save" THEN [fs EXCEPT !.file[filename] = EmptyFile] ELSE fs
    /\ UNCHANGED <<tasks, lastOp, pre, loop_i, data_json, runs, scenarioVars, mainVars, callVars, raceVars>>

\* a create_dir, rename, File::create or write fails: the error is returned through
\* save_file or roll_back_file to main, which exits; a failed write may have written
\* a part of the text
StepFail ==
    /\ faults < MaxFaults
    /\ FailingOperation # "none"
    /\ faults' = faults + 1
    /\ Exit(FailingOperation)
    /\ \/ fs' = fs
       \/ pc = "write" /\ fs' = [fs EXCEPT !.file[filename] = PartialFile(data_json)]
    /\ UNCHANGED <<tasks, lastOp, pre, loop_i, data_json, runs, scenarioVars, mainVars, callVars, raceVars>>

\* the process is killed between two steps, or while it writes
Kill ==
    /\ faults < MaxFaults
    /\ pc \notin {"exit", "engine"}
    /\ faults' = faults + 1
    /\ Exit("Killed")
    /\ \/ fs' = fs
       \/ pc = "write" /\ fs' = [fs EXCEPT !.file[filename] = PartialFile(data_json)]
    /\ UNCHANGED <<tasks, lastOp, pre, loop_i, data_json, runs, scenarioVars, mainVars, callVars, raceVars>>

\* the next process starts: main.rs:18-19
StepNextRun ==
    /\ pc = "exit"
    /\ runs < MaxRuns
    /\ runs' = runs + 1
    /\ pc' = "load"
    /\ tasks' = <<>>
    /\ result' = "Ok"
    /\ lastOp' = "none"
    /\ pre' = fs
    /\ loop_i' = 0
    /\ data_json' = <<>>
    /\ UNCHANGED <<fs, faults, scenarioVars, mainVars, callVars, raceVars>>

StepNext ==
    \/ StepLoad
    \/ \E ts \in EngineInputs : StepSave(ts)
    \/ StepUndo
    \/ StepReadOnly
    \/ StepCreateDir
    \/ StepBackupShift
    \/ StepBackupNewest
    \/ StepCreate
    \/ StepWrite
    \/ StepRollback
    \/ StepFail
    \/ Kill
    \/ StepNextRun

SpecStep == StepInit /\ [][StepNext]_vars

-----------------------------------------------------------------------------
(* main: one process after the other, each with its command line; the      *)
(* calls of file_io are taken whole.                                       *)

\* the most processes run one after the other with a command line
MaxInvocations == 2

\* the commands of the match in main, and one it does not know
Commands ==
    {"add", "due", "note", "color", "rename", "remove", "list", "show", "sort", "undo",
     "info", "help", "bogus"}

\* main.rs:72   the commands after which the tasks are saved
SavingCommands == {"add", "due", "note", "color", "rename", "remove", "sort"}

T_1 == <<"1">>

T_2 == <<"2">>

T_0 == <<"0">>

T_9 == <<"9">>

T_x == <<"x">>

T_red == <<"r", "e", "d">>

T_Red == <<"R", "e", "d">>

T_clear == <<"c", "l", "e", "a", "r">>

T_date == <<"2", "0", "2", "5", "-", "0", "1", "-", "0", "5">>

T_nodate == <<"2", "0", "2", "5", "0", "1", "0", "5">>

\* the argument lists of the command lines
ArgLists ==
    {<<>>, <<T_1>>, <<T_2>>, <<T_0>>, <<T_9>>, <<T_x>>, <<T_1, T_x>>,
     <<T_1, T_red>>, <<T_1, T_Red>>, <<T_1, T_clear>>,
     <<T_1, T_date>>, <<T_1, T_nodate>>, <<T_1, T_red, T_x>>, <<T_1, T_date, T_x>>}

\* the local dates on which the processes run
Todays == {Day1}

\* a history of saves that leaves two tasks out of the order of sort_tasks:
\* add b, add a, color 2 red
SampleHistory ==
    <<<<Task_new(<<"b">>, Day1)>>,
      <<Task_new(<<"b">>, Day1), Task_new(<<"a">>, Day1)>>,
      <<Task_new(<<"b">>, Day1), Task(<<"a">>, Day1, None, Some("Red"), <<>>)>>>>

\* main.rs:43-65   the match on the command, for the commands that return a Result
dispatch(cmd, args, ts, today) ==
    CASE cmd = "add" -> create_task(ts, args, today)
      [] cmd = "due" -> add_duedate(ts, args)
      [] cmd = "note" -> add_note(ts, args)
      [] cmd = "color" -> set_task_color(ts, args)
      [] cmd = "rename" -> rename_task(ts, args)
      [] cmd = "remove" -> delete_task(ts, args)
      [] cmd = "list" -> list_tasks(ts, args)
      [] cmd = "show" -> show_task(ts, args)
      [] cmd = "sort" -> sort_tasks(ts, args)
      [] cmd = "undo" -> [result |-> check_for_more_args(args), tasks |-> ts]
      [] cmd = "help" -> show_help(ts, args)

\* command_outcome with the Err arm only reporting the error
command_outcome_unchecked(cmd, res) ==
    [save_flag |-> cmd \in SavingCommands,
     undo_flag |-> cmd \notin SavingCommands /\ cmd = "undo",
     exit |-> FALSE]

\* command_outcome with sort left out of the commands that save
command_outcome_nosort(cmd, res) ==
    IF res = "Ok"
    THEN [save_flag |-> cmd \in SavingCommands \ {"sort"},
          undo_flag |-> cmd \notin SavingCommands \ {"sort"} /\ cmd = "undo",
          exit |-> FALSE]
    ELSE [save_flag |-> FALSE, undo_flag |-> FALSE, exit |-> TRUE]

\* main.rs:67-82   the flags set after the command, or the exit on its error
command_outcome(cmd, res) ==
    IF res = "Ok"
    THEN [save_flag |-> cmd \in SavingCommands,
          undo_flag |-> cmd \notin SavingCommands /\ cmd = "undo",
          exit |-> FALSE]
    ELSE [save_flag |-> FALSE, undo_flag |-> FALSE, exit |-> TRUE]

MainInit ==
    /\ fs \in {FreshFs, FsAfter(SampleHistory)}
    /\ tasks = <<>>
    /\ result = "Ok"
    /\ lastOp = "none"
    /\ pre = fs
    /\ saved = <<>>
    /\ nroll = 0
    /\ phase = "mixed"
    /\ pc = "load"
    /\ loop_i = 0
    /\ data_json = <<>>
    /\ runs = 1
    /\ faults = 0
    /\ command = None
    /\ args_iter = <<>>
    /\ command_result = "none"
    /\ save_flag = FALSE
    /\ undo_flag = FALSE
    /\ nsave = 0
    /\ nrollback = 0
    /\ exit_code = -1
    /\ before = <<>>
    /\ ncalls = 0
    /\ procs = NoProcs
    /\ concurrent = FALSE

\* main.rs:21-28   load_tasks; its error ends the process with exit code 1
MainLoad ==
    /\ pc = "load"
    /\ LET r == load_tasks(fs, tasks)
       IN  /\ tasks' = r.tasks
           /\ result' = r.result
           /\ pc' = IF r.result = "Ok" THEN "command" ELSE "exit"
           /\ exit_code' = IF r.result = "Ok" THEN exit_code ELSE 1
    /\ UNCHANGED <<fs, lastOp, pre, loop_i, data_json, runs, faults, scenarioVars, callVars, raceVars, command,
                   args_iter, command_result, save_flag, undo_flag, nsave, nrollback>>

\* main.rs:30-82   the command line cmd args is read and the command run; no command,
\* an unknown command and info end the process here, as does an error of the command
MainCommand(cmd, args, today) ==
    /\ pc = "command"
    /\ command' = cmd
    /\ args_iter' = args
    /\ IF is_none(cmd) \/ unwrap(cmd) \in {"info", "bogus"}
       THEN /\ pc' = "exit"
            /\ exit_code' = IF cmd = Some("info") THEN 0 ELSE 1
            /\ UNCHANGED <<tasks, command_result, save_flag, undo_flag>>
       ELSE LET r == dispatch(unwrap(cmd), args, tasks, today)
                o == command_outcome(unwrap(cmd), r.result)
            IN  /\ tasks' = r.tasks
                /\ command_result' = r.result
                /\ save_flag' = o.save_flag
                /\ undo_flag' = o.undo_flag
                /\ pc' = IF o.exit THEN "exit" ELSE "persist"
                /\ exit_code' = IF o.exit THEN 1 ELSE exit_code
    /\ UNCHANGED <<fs, result, lastOp, pre, loop_i, data_json, runs, faults, scenarioVars, callVars, raceVars,
                   nsave, nrollback>>

\* main.rs:84-101   save_file, or roll_back_file, or neither, and the process ends
MainPersist ==
    /\ pc = "persist"
    /\ pc' = "exit"
    /\ IF save_flag
       THEN LET r == save_file(fs, tasks)
            IN  /\ fs' = r.fs
                /\ result' = r.result
                /\ exit_code' = IF r.result = "Ok" THEN 0 ELSE 1
                /\ nsave' = nsave + 1
                /\ lastOp' = "save"
                /\ UNCHANGED nrollback
       ELSE IF undo_flag
       THEN LET r == roll_back_file(fs)
            IN  /\ fs' = r.fs
                /\ result' = r.result
                /\ exit_code' = IF r.result = "Ok" THEN 0 ELSE 1
                /\ nrollback' = nrollback + 1
                /\ lastOp' = "rollback"
                /\ UNCHANGED nsave
       ELSE /\ exit_code' = 0
            /\ UNCHANGED <<fs, result, lastOp, nsave, nrollback>>
    /\ UNCHANGED <<tasks, pre, loop_i, data_json, runs, faults, scenarioVars, callVars, raceVars, command,
                   args_iter, command_result, save_flag, undo_flag>>

\* the next process starts: main.rs:18-19
MainNextRun ==
    /\ pc = "exit"
    /\ runs < MaxInvocations
    /\ runs' = runs + 1
    /\ pc' = "load"
    /\ tasks' = <<>>
    /\ result' = "Ok"
    /\ lastOp' = "none"
    /\ pre' = fs
    /\ command' = None
    /\ args_iter' = <<>>
    /\ command_result' = "none"
    /\ save_flag' = FALSE
    /\ undo_flag' = FALSE
    /\ nsave' = 0
    /\ nrollback' = 0
    /\ exit_code' = -1
    /\ UNCHANGED <<fs, loop_i, data_json, faults, scenarioVars, callVars, raceVars>>

Next ==
    \/ MainLoad
    \/ \E cmd \in {None} \cup {Some(c) : c \in Commands}, args \in ArgLists, today \in Todays :
          MainCommand(cmd, args, today)
    \/ MainPersist
    \/ MainNextRun

Spec == MainInit /\ [][Next]_vars

-----------------------------------------------------------------------------
(* A collection is saved and then loaded by a process that starts.         *)

\* the most tasks in a collection that is saved and loaded
MaxLen == 2

Day3 == [y |-> 2025, m |-> 1, d |-> 5]

\* the tasks of the collections: names and notes with the characters JSON escapes,
\* notes of several lines, the optional fields unset and set
RoundTripTasks ==
    {Task(name, Day1, due_date, color, note) :
        name \in {<<"a">>, <<QUOTE, BACKSLASH, "n">>},
        due_date \in {None, Some(Day3)},
        color \in {None, Some("Red"), Some("Purple")},
        note \in {<<>>, <<"x", NEWLINE, BACKSLASH, "y", NEWLINE, "n">>}}

RECURSIVE SeqsUpTo(_, _)
\* the sequences of at most n elements of S
SeqsUpTo(S, n) ==
    IF n = 0 THEN {<<>>}
    ELSE LET shorter == SeqsUpTo(S, n - 1)
         IN  shorter \cup {Append(q, x) : q \in shorter, x \in S}

RoundTripInit ==
    /\ fs \in {FreshFs, AfterSaves(2)}
    /\ tasks \in SeqsUpTo(RoundTripTasks, MaxLen)
    /\ result = "Ok"
    /\ lastOp = "none"
    /\ pre = fs
    /\ saved = <<>>
    /\ nroll = 0
    /\ phase = "mixed"
    /\ pc = "save"
    /\ loop_i = 0
    /\ data_json = <<>>
    /\ runs = 1
    /\ faults = 0
    /\ command = None
    /\ args_iter = <<>>
    /\ command_result = "none"
    /\ save_flag = FALSE
    /\ undo_flag = FALSE
    /\ nsave = 0
    /\ nrollback = 0
    /\ exit_code = -1
    /\ before = <<>>
    /\ ncalls = 0
    /\ procs = NoProcs
    /\ concurrent = FALSE

\* save_file(&filename, &tasks); saved records the collection
RoundTripSave ==
    /\ pc = "save"
    /\ LET r == save_file(fs, tasks)
       IN  /\ fs' = r.fs
           /\ result' = r.result
    /\ saved' = <<tasks>>
    /\ lastOp' = "save"
    /\ pc' = "load"
    /\ UNCHANGED <<tasks, pre, nroll, phase, loop_i, data_json, runs, faults, mainVars, callVars, raceVars>>

\* the next process starts with tasks = vec![] and calls load_tasks(&filename, &mut tasks)
RoundTripLoad ==
    /\ pc = "load"
    /\ LET r == load_tasks(fs, <<>>)
       IN  /\ tasks' = r.tasks
           /\ result' = r.result
    /\ lastOp' = "load"
    /\ pc' = "loaded"
    /\ runs' = runs + 1
    /\ UNCHANGED <<fs, pre, saved, nroll, phase, loop_i, data_json, faults, mainVars, callVars, raceVars>>

RoundTripNext == RoundTripSave \/ RoundTripLoad

SpecRoundTrip == RoundTripInit /\ [][RoundTripNext]_vars

-----------------------------------------------------------------------------
(* The commands of task.rs called one after the other on the list of a     *)
(* process, whatever their result.                                         *)

\* the most calls made on the list
MaxCalls == 2

T_3 == <<"3">>

T_01 == <<"0", "1">>

T_plus1 == <<"+", "1">>

T_minus1 == <<"-", "1">>

\* 2^64, one more than usize::MAX
T_huge ==
    <<"1", "8", "4", "4", "6", "7", "4", "4", "0", "7", "3", "7", "0", "9", "5", "5", "1", "6", "1", "6">>

T_empty == <<>>

T_y == <<"y">>

T_yellow == <<"y", "e", "l", "l", "o", "w">>

T_green == <<"g", "r", "e", "e", "n">>

T_blue == <<"b", "l", "u", "e">>

T_purple == <<"p", "u", "r", "p", "l", "e">>

T_date2 == <<"2", "0", "2", "4", "-", "2", "-", "2", "9">>

T_baddate == <<"2", "0", "2", "5", "-", "0", "2", "-", "3", "0">>

\* the tokens that name a color
ColorTokens == {T_red, T_yellow, T_green, T_blue, T_purple}

\* a list that three add, and a due, two color and a note command leave; sort_tasks
\* changes its order
SampleTasks ==
    <<Task(<<"b">>, Day1, None, None, <<>>),
      Task(<<"a">>, Day1, Some(Day3), Some("Blue"), <<"n">>),
      Task(<<"c">>, Day2, None, Some("Red"), <<>>)>>

\* the lists the calls start from
StartLists == {<<>>, SampleTasks}

\* argument lists whose first argument names no task of any list here, or is missing
IdErrorArgs == {<<>>, <<T_0>>, <<T_9>>, <<T_x>>, <<T_huge>>, <<T_minus1>>}

\* the ids 1, 2 and 3
Ids == {T_1, T_2, T_3}

ShowArgs ==
    IdErrorArgs \cup {<<id>> : id \in Ids \cup {T_01, T_plus1}} \cup {<<T_1, T_x>>}

DeleteArgs ==
    IdErrorArgs \cup {<<id>> : id \in Ids} \cup {<<T_2, T_x>>, <<T_2, T_empty>>}

RenameArgs ==
    IdErrorArgs \cup {<<id>> : id \in Ids} \cup {<<id, T_y>> : id \in Ids}
        \cup {<<T_1, T_x, T_1>>}

ColorArgs ==
    IdErrorArgs \cup {<<T_1>>, <<T_1, T_red, T_x>>, <<T_1, T_Red, T_x>>}
        \cup {<<id, c>> : id \in {T_1, T_2}, c \in ColorTokens \cup {T_clear, T_Red, T_x, T_empty}}

DueArgs ==
    IdErrorArgs \cup {<<T_2>>, <<T_2, T_date, T_x>>, <<T_2, T_nodate, T_x>>}
        \cup {<<id, d>> : id \in {T_1, T_2}, d \in {T_date, T_date2, T_nodate, T_baddate}}

NoteArgs ==
    IdErrorArgs
        \cup {<<id>> \o text : id \in {T_1, T_2},
                               text \in {<<>>, <<T_x>>, <<T_y>>, <<T_clear>>, <<T_clear, T_x>>}}

CreateArgs == {<<>>, <<T_empty>>, <<T_x>>, <<T_x, T_1>>, <<T_empty, T_empty>>}

SortArgs == {<<>>, <<T_x>>, <<T_empty>>}

TasksInit ==
    /\ fs = FreshFs
    /\ tasks \in StartLists
    /\ result = "Ok"
    /\ lastOp = "none"
    /\ pre = fs
    /\ saved = <<>>
    /\ nroll = 0
    /\ phase = "mixed"
    /\ pc = "command"
    /\ loop_i = 0
    /\ data_json = <<>>
    /\ runs = 1
    /\ faults = 0
    /\ command = None
    /\ args_iter = <<>>
    /\ command_result = "none"
    /\ save_flag = FALSE
    /\ undo_flag = FALSE
    /\ nsave = 0
    /\ nrollback = 0
    /\ exit_code = -1
    /\ before = tasks
    /\ ncalls = 0
    /\ procs = NoProcs
    /\ concurrent = FALSE

\* the call cmd args returns r
Called(cmd, args, r) ==
    /\ ncalls' = ncalls + 1
    /\ before' = tasks
    /\ command' = Some(cmd)
    /\ args_iter' = args
    /\ command_result' = r.result
    /\ tasks' = r.tasks
    /\ UNCHANGED <<fs, result, lastOp, pre, stepVars, scenarioVars, save_flag, undo_flag,
                   nsave, nrollback, exit_code, raceVars>>

CallCreate(args, today) ==
    /\ ncalls < MaxCalls
    /\ Called("add", args, create_task(tasks, args, today))

CallShow(args) ==
    /\ ncalls < MaxCalls
    /\ Called("show", args, show_task(tasks, args))

CallDelete(args) ==
    /\ ncalls < MaxCalls
    /\ Called("remove", args, delete_task(tasks, args))

CallSetColor(args) ==
    /\ ncalls < MaxCalls
    /\ Called("color", args, set_task_color(tasks, args))

CallAddNote(args) ==
    /\ ncalls < MaxCalls
    /\ Called("note", args, add_note(tasks, args))

CallSort(args) ==
    /\ ncalls < MaxCalls
    /\ Called("sort", args, sort_tasks(tasks, args))

CallAddDuedate(args) ==
    /\ ncalls < MaxCalls
    /\ Called("due", args, add_duedate(tasks, args))

CallRename(args) ==
    /\ ncalls < MaxCalls
    /\ Called("rename", args, rename_task(tasks, args))

TasksNext ==
    \/ \E args \in CreateArgs : CallCreate(args, Day2)
    \/ \E args \in ShowArgs : CallShow(args)
    \/ \E args \in DeleteArgs : CallDelete(args)
    \/ \E args \in ColorArgs : CallSetColor(args)
    \/ \E args \in NoteArgs : CallAddNote(args)
    \/ \E args \in SortArgs : CallSort(args)
    \/ \E args \in DueArgs : CallAddDuedate(args)
    \/ \E args \in RenameArgs : CallRename(args)

SpecTasks == TasksInit /\ [][TasksNext]_vars

\* the calls made on the list of a process that found no file
EmptyInit == TasksInit /\ tasks = <<>>

SpecFromEmpty == EmptyInit /\ [][TasksNext]_vars

-----------------------------------------------------------------------------
(* sort_tasks called on the lists of tasks of every color and several due  *)
(* dates.                                                                  *)

\* the most tasks of a list that is sorted
MaxSortLen == 3

Day4 == [y |-> 2025, m |-> 12, d |-> 3]

\* tasks of every color without a due date, tasks whose due dates differ in the year, in
\* the month and in the day, and tasks b that have the colors and due dates of tasks a
SortTasks ==
    {Task(<<"a">>, Day1, None, c, <<>>) : c \in {None} \cup {Some(x) : x \in Colors}}
        \cup {Task(<<"a">>, Day1, Some(Day2), Some("Red"), <<>>),
              Task(<<"a">>, Day1, Some(Day1), Some("Red"), <<>>),
              Task(<<"a">>, Day1, Some(Day2), None, <<>>),
              Task(<<"a">>, Day1, Some(Day3), None, <<>>),
              Task(<<"a">>, Day1, Some(Day2), Some("Purple"), <<>>),
              Task(<<"a">>, Day1, Some(Day4), Some("Purple"), <<>>),
              Task(<<"b">>, Day2, None, None, <<>>),
              Task(<<"b">>, Day2, Some(Day1), Some("Red"), <<>>)}

SortInit ==
    /\ fs = FreshFs
    /\ tasks \in SeqsUpTo(SortTasks, MaxSortLen)
    /\ result = "Ok"
    /\ lastOp = "none"
    /\ pre = fs
    /\ saved = <<>>
    /\ nroll = 0
    /\ phase = "mixed"
    /\ pc = "command"
    /\ loop_i = 0
    /\ data_json = <<>>
    /\ runs = 1
    /\ faults = 0
    /\ command = None
    /\ args_iter = <<>>
    /\ command_result = "none"
    /\ save_flag = FALSE
    /\ undo_flag = FALSE
    /\ nsave = 0
    /\ nrollback = 0
    /\ exit_code = -1
    /\ before = tasks
    /\ ncalls = 0
    /\ procs = NoProcs
    /\ concurrent = FALSE

SortNext == \E args \in {<<>>, <<T_x>>} : CallSort(args)

SpecSort == SortInit /\ [][SortNext]_vars

-----------------------------------------------------------------------------
(* Two processes at the same time on one path, each run with `add` and a   *)
(* task name of its own, one system call on the files per step: the test   *)
(* Path::exists and the call it guards are two steps, and a file that a    *)
(* process has open stays that file when its path is renamed.  No call     *)
(* fails for a reason other than the files the processes find.             *)

\* the most saves made on the path before the two processes start
MaxRaceHistory == 2

\* the two processes
Procs == {1, 2}

\* the task name on the command line of process p
RaceName(p) == IF p = 1 THEN <<"a">> ELSE <<"b">>

\* the collection the k-th earlier save wrote: a task more with every save
RaceHistory(k) == [j \in 1..k |-> Task_new(<<"x">>, Day1)]

\* the earlier saves of a path that saw k of them
RaceSaves(k) == [j \in 1..k |-> RaceHistory(j)]

\* the file a process has open is at no path any more: its path was renamed over
Unlinked == -2

\* the process has no file open
NoHandle == -3

\* the path of the open file h after rename(from, to)
Moved(h, from, to) == IF h = from THEN to ELSE IF h = to THEN Unlinked ELSE h

\* the processes ps after rename(from, to), the open files following their paths
Renamed(ps, from, to) ==
    [o \in DOMAIN ps |-> [ps[o] EXCEPT !.handle = Moved(@, from, to)]]

RECURSIVE TextLen(_)
\* the number of characters of the text of a document, up to the same constant for
\* every task (the field names and the punctuation)
TextLen(doc) ==
    IF doc = <<>> THEN 0
    ELSE LET o == Head(doc)
         IN  1 + Len(o.name) + Len(o.creation_date) + Len(o.due_date) + Len(o.color)
               + Len(o.note) + TextLen(Tail(doc))

\* write! through a file opened by File::create, at offset 0: a text that another
\* process wrote into the same file meanwhile is overwritten, and what of it is longer
\* than the new text stays behind it
Overwritten(cur, text) ==
    IF cur.state = "empty" \/ TextLen(text) >= TextLen(cur.doc)
    THEN CompleteFile(text)
    ELSE PartialFile(text)

RaceInit ==
    /\ \E k \in 0..MaxRaceHistory :
          /\ saved = RaceSaves(k)
          /\ fs = FsAfter(saved)
    /\ procs = [p \in Procs |->
                  [pc |-> "load", tasks |-> <<>>, data_json |-> <<>>, i |-> 0,
                   handle |-> NoHandle, result |-> "none", at |-> "none"]]
    /\ concurrent = FALSE
    /\ tasks = <<>>
    /\ result = "Ok"
    /\ lastOp = "none"
    /\ pre = fs
    /\ nroll = 0
    /\ phase = "mixed"
    /\ pc = "race"
    /\ loop_i = 0
    /\ data_json = <<>>
    /\ runs = 2
    /\ faults = 0
    /\ command = None
    /\ args_iter = <<>>
    /\ command_result = "none"
    /\ save_flag = FALSE
    /\ undo_flag = FALSE
    /\ nsave = 0
    /\ nrollback = 0
    /\ exit_code = -1
    /\ before = <<>>
    /\ ncalls = 0

\* process p takes a step: ps are the processes and f the file system after it
RaceStep(p, ps, f) ==
    /\ procs' = ps
    /\ fs' = f
    /\ concurrent' = (concurrent \/ \E o \in Procs \ {p} : procs[o].pc \notin {"load", "exit"})
    /\ UNCHANGED <<tasks, result, lastOp, pre, scenarioVars, stepVars, mainVars, callVars>>

\* the process q at the place next
At(q, next) == [q EXCEPT !.pc = next]

\* the process q after std::process::exit(1) on the error e, or the return of main
Exited(q, e) == [q EXCEPT !.pc = "exit", !.result = e, !.at = q.pc, !.handle = NoHandle]

\* file_io.rs:54   if filename.exists()
RaceLoadExists(p) ==
    /\ procs[p].pc = "load"
    /\ RaceStep(p, [procs EXCEPT ![p] = At(@, IF exists(fs.file, filename) THEN "read"
                                               ELSE "command")], fs)

\* file_io.rs:55-57 and main.rs:21-28   read_to_string, which fails when the file is
\* gone by now, and serde_json::from_str; a failure ends the process
RaceLoadRead(p) ==
    /\ procs[p].pc = "read"
    /\ LET r == IF exists(fs.file, filename) THEN load_tasks(fs, procs[p].tasks)
                ELSE [result |-> "Io", tasks |-> procs[p].tasks]
       IN  RaceStep(p, [procs EXCEPT ![p] =
                           IF r.result = "Ok" THEN At([@ EXCEPT !.tasks = r.tasks], "command")
                           ELSE Exited(@, r.result)], fs)

\* main.rs:43-82 and file_io.rs:67   add <name> succeeds, save_flag is set and save_file
\* begins with the text of the collection
RaceCommand(p) ==
    /\ procs[p].pc = "command"
    /\ LET r == create_task(procs[p].tasks, <<RaceName(p)>>, Day1)
       IN  RaceStep(p, [procs EXCEPT ![p] =
                           At([@ EXCEPT !.tasks = r.tasks, !.data_json = to_string(r.tasks),
                                        !.i = max_undos - 1], "dir")], fs)

\* file_io.rs:71   if !parent_dir.exists()
RaceDirExists(p) ==
    /\ procs[p].pc = "dir"
    /\ RaceStep(p, [procs EXCEPT ![p] = At(@, IF fs.dir THEN "backup" ELSE "mkdir")], fs)

\* file_io.rs:72   create_dir, which fails on a directory that exists by now
RaceCreateDir(p) ==
    /\ procs[p].pc = "mkdir"
    /\ IF fs.dir
       THEN RaceStep(p, [procs EXCEPT ![p] = Exited(@, "CreateDir")], fs)
       ELSE RaceStep(p, [procs EXCEPT ![p] = At(@, "backup")], [fs EXCEPT !.dir = TRUE])

\* the process q after pass i of the loop of create_backup
NextPass(q) == IF q.i = 0 THEN At(q, "newest") ELSE At([q EXCEPT !.i = q.i - 1], "backup")

\* file_io.rs:99   if backup_newer.exists()
RaceBackupExists(p) ==
    /\ procs[p].pc = "backup"
    /\ RaceStep(p, [procs EXCEPT ![p] = IF exists(fs.file, with_extension(@.i))
                                        THEN At(@, "rename") ELSE NextPass(@)], fs)

\* file_io.rs:100   rename(backup_newer, backup_older)
RaceBackupRename(p) ==
    /\ procs[p].pc = "rename"
    /\ LET from == with_extension(procs[p].i)
           to == with_extension(procs[p].i + 1)
           r == rename(fs.file, from, to)
       IN  IF r.result # "Ok"
           THEN RaceStep(p, [procs EXCEPT ![p] = Exited(@, r.result)], fs)
           ELSE RaceStep(p, [Renamed(procs, from, to) EXCEPT ![p] = NextPass(@)],
                         [fs EXCEPT !.file = r.files])

\* file_io.rs:108   if filename.exists()
RaceNewestExists(p) ==
    /\ procs[p].pc = "newest"
    /\ RaceStep(p, [procs EXCEPT ![p] = At(@, IF exists(fs.file, filename) THEN "move"
                                               ELSE "create")], fs)

\* RaceNewestRename without the rename: the primary file stays where it is
RaceNewestRename_skip(p) ==
    /\ procs[p].pc = "move"
    /\ RaceStep(p, [procs EXCEPT ![p] = At(@, "create")], fs)

\* file_io.rs:109   rename(filename, backup_newest)
RaceNewestRename(p) ==
    /\ procs[p].pc = "move"
    /\ LET r == rename(fs.file, filename, with_extension(0))
       IN  IF r.result # "Ok"
           THEN RaceStep(p, [procs EXCEPT ![p] = Exited(@, r.result)], fs)
           ELSE RaceStep(p, [Renamed(procs, filename, with_extension(0))
                                EXCEPT ![p] = At(@, "create")],
                         [fs EXCEPT !.file = r.files])

\* file_io.rs:80   File::create: the file at the path is made empty, or a new one made
RaceCreate(p) ==
    /\ procs[p].pc = "create"
    /\ RaceStep(p, [procs EXCEPT ![p] = At([@ EXCEPT !.handle = filename], "write")],
                [fs EXCEPT !.file = File_create(fs.file).files])

\* file_io.rs:81-83   write! into the open file, wherever it is now; main returns
RaceWrite(p) ==
    /\ procs[p].pc = "write"
    /\ LET h == procs[p].handle
       IN  RaceStep(p, [procs EXCEPT ![p] = Exited(@, "Ok")],
                    IF h = Unlinked THEN fs
                    ELSE [fs EXCEPT !.file[h] = Overwritten(@, procs[p].data_json)])

RaceNext ==
    \E p \in Procs :
        \/ RaceLoadExists(p)
        \/ RaceLoadRead(p)
        \/ RaceCommand(p)
        \/ RaceDirExists(p)
        \/ RaceCreateDir(p)
        \/ RaceBackupExists(p)
        \/ RaceBackupRename(p)
        \/ RaceNewestExists(p)
        \/ RaceNewestRename(p)
        \/ RaceCreate(p)
        \/ RaceWrite(p)

SpecRace == RaceInit /\ [][RaceNext]_vars

-----------------------------------------------------------------------------
(* Properties                                                              *)

\* the backup slots that exist
Backups(files) == {i \in 0..max_undos : exists(files, with_extension(i))}

\* C1: on a fresh path, after n <= 11 saves of S1 .. Sn (none of which fails) the j-th
\* rollback in a row succeeds for j < n and leaves S(n-j) in the primary file, and the
\* n-th rollback fails with BackupMissing while the primary file still holds S1.
C1_SavesThenRollbacks ==
    LET n == Len(saved)
    IN  (phase # "mixed" /\ n >= 1 /\ n <= max_undos + 1) =>
            /\ phase = "saving" =>
                  result = "Ok" /\ fs.file[filename] = Holds(saved[n])
            /\ (phase = "rolling" /\ nroll < n) =>
                  result = "Ok" /\ fs.file[filename] = Holds(saved[n - nroll])
            /\ (phase = "rolling" /\ nroll = n) =>
                  result = "BackupMissing" /\ fs.file[filename] = Holds(saved[1])

\* eleven saves, the first two of different collections, then eleven rollbacks
C1_Witness ==
    /\ phase = "rolling"
    /\ Len(saved) = max_undos + 1
    /\ nroll = Len(saved)
    /\ saved[1] # saved[2]
    /\ result = "BackupMissing"

\* C3: at most 10 backup files exist in any state that successful saves and
\* rollbacks reach from an empty path.
C3_AtMostTenBackups == Cardinality(Backups(fs.file)) <= max_undos


\* a process that ran save_file or roll_back_file to its end
Returned(op) == pc = "exit" /\ lastOp = op /\ result # "Killed"

\* C2: a save that is killed between two of its steps leaves at the primary path the
\* complete file it held before the save or the complete new file, never no file, an
\* empty file or a part of one, when a primary file existed before the save.
C2_AtomicReplace ==
    (lastOp = "save" /\ result = "Killed" /\ pre.file[filename].state = "complete") =>
        fs.file[filename] \in {pre.file[filename], CompleteFile(data_json)}

\* C4 as claimed: after a successful save every backup slot i + 1 (i in 0..9) holds
\* what slot i held, so that what slot 010 held is stored nowhere, slot 000 holds what
\* the primary file held, and the primary file is the encoding of the saved collection.
C4_RotationEvictsSlot10 ==
    (Returned("save") /\ result = "Ok") =>
        /\ \A k \in 0..(max_undos - 1) :
              fs.file[with_extension(k + 1)] = pre.file[with_extension(k)]
        /\ fs.file[with_extension(0)] = pre.file[filename]
        /\ fs.file[filename] = Holds(tasks)

\* C4 as amended: the same, except that slot 010 keeps what it held when slot 009
\* did not exist before the save.
C4_Rotation ==
    (Returned("save") /\ result = "Ok") =>
        /\ \A k \in 0..(max_undos - 2) :
              fs.file[with_extension(k + 1)] = pre.file[with_extension(k)]
        /\ fs.file[with_extension(max_undos)] =
              IF exists(pre.file, with_extension(max_undos - 1))
              THEN pre.file[with_extension(max_undos - 1)]
              ELSE pre.file[with_extension(max_undos)]
        /\ fs.file[with_extension(0)] = pre.file[filename]
        /\ fs.file[filename] = Holds(tasks)

\* a save on a full chain, the two oldest backups and the two newest files differing
C4_Witness ==
    /\ Returned("save") /\ result = "Ok"
    /\ Backups(pre.file) = 0..max_undos
    /\ pre.file[with_extension(max_undos)] # pre.file[with_extension(max_undos - 1)]
    /\ fs.file[filename] # pre.file[filename]

\* C5: after a successful rollback the primary file holds what slot 000 held, every
\* slot i - 1 (i in 1..10) holds exactly what slot i held (nothing if it held nothing),
\* and slot 010 holds nothing.
C5_RollbackShifts ==
    (Returned("rollback") /\ result = "Ok") =>
        /\ fs.file[filename] = pre.file[with_extension(0)]
        /\ \A k \in 1..max_undos :
              fs.file[with_extension(k - 1)] = pre.file[with_extension(k)]
        /\ fs.file[with_extension(max_undos)] = NoFile

\* a rollback on a full chain whose newest backup differs from the primary file
C5_Witness ==
    /\ Returned("rollback") /\ result = "Ok"
    /\ Backups(pre.file) = 0..max_undos
    /\ pre.file[with_extension(0)] # pre.file[filename]
    /\ pre.file[with_extension(1)] # pre.file[with_extension(0)]

\* C6: when backup 000 does not exist, roll_back_file renames nothing (the primary
\* file and the slots 001..010 stay as they were) and returns BackupMissing.
C6_NoBackupNoChange ==
    (lastOp = "rollback" /\ ~exists(pre.file, with_extension(0))) =>
        /\ fs = pre
        /\ Returned("rollback") => result = "BackupMissing"

\* a failed rollback on a path that has a primary file and older backups but no 000
C6_Witness ==
    /\ Returned("rollback") /\ result = "BackupMissing"
    /\ exists(pre.file, filename)
    /\ Backups(pre.file) # {}

\* C10: when the primary file does not exist, load_tasks returns Ok, the collection
\* is empty and no file is created or changed, whether or not backups exist.
C10_FirstRunLoad ==
    (pc # "load" /\ lastOp = "none" /\ result # "Killed"
        /\ ~exists(pre.file, filename)) =>
        /\ result = "Ok"
        /\ tasks = <<>>
        /\ fs = pre

\* a load on a path without a primary file and with backups
C10_Witness ==
    /\ pc = "command"
    /\ ~exists(pre.file, filename)
    /\ Backups(pre.file) # {}


\* TLC refutes this under SpecEngine: the fullest file system StepInit starts from
\* is the one that max_undos + 2 saves leave on a fresh path
NoFullHistory == fs # AfterSaves(max_undos + 2)


\* C7: a successful save of a collection C followed by a load into an empty
\* collection yields C, field for field and in the same order.
C7_RoundTrip ==
    pc = "loaded" => (result = "Ok" /\ tasks = saved[1])

\* two tasks, with and without the optional fields, a note of several lines
C7_Witness ==
    /\ pc = "loaded"
    /\ Len(tasks) = 2
    /\ is_some(tasks[1].due_date) /\ is_some(tasks[1].color)
    /\ is_none(tasks[2].due_date) /\ is_none(tasks[2].color)
    /\ NEWLINE \in {tasks[1].note[k] : k \in 1..Len(tasks[1].note)}
    /\ tasks[1].name # tasks[2].name


\* C8: the command alone decides what a process whose command succeeded does to the
\* files: add, rename, remove, color, due, note and sort call save_file once and
\* roll_back_file never, undo calls roll_back_file once and save_file never, and list,
\* show, help and info call neither and leave every file as it was.
C8_CommandDecidesPersistence ==
    (pc = "exit" /\ is_some(command)) =>
        LET cmd == unwrap(command)
        IN  /\ (cmd \in {"add", "rename", "remove", "color", "due", "note", "sort"}
                  /\ command_result = "Ok") => (nsave = 1 /\ nrollback = 0)
            /\ (cmd = "undo" /\ command_result = "Ok") => (nrollback = 1 /\ nsave = 0)
            /\ cmd \in {"list", "show", "help", "info"} =>
                  (nsave = 0 /\ nrollback = 0 /\ fs = pre)

\* a sort that changed the order of the tasks and was saved
C8_Witness ==
    /\ pc = "exit"
    /\ command = Some("sort")
    /\ command_result = "Ok"
    /\ nsave = 1
    /\ fs.file[filename] # pre.file[filename]
    /\ fs.file[with_extension(0)] = pre.file[filename]

\* C9: a process whose command returns an error (ArgMissing, TooManyArgs,
\* InvalidTaskId, TaskNotFound, InvalidColor, IncorrectDateFormat), undo with further
\* arguments included, calls neither save_file nor roll_back_file and leaves every
\* file as it was.
C9_ErrorNoPersistence ==
    (command_result \notin {"Ok", "none"}) =>
        (nsave = 0 /\ nrollback = 0 /\ fs = pre /\ pc = "exit")

\* undo with a further argument on a path that has a backup to restore
C9_Witness ==
    /\ pc = "exit"
    /\ command = Some("undo")
    /\ command_result = "TooManyArgs"
    /\ exists(fs.file, with_extension(0))

\* the errors a command of task.rs returns
ArgErrors ==
    {ArgMissing_task_id, ArgMissing_task_name, ArgMissing_date, "TooManyArgs", "InvalidTaskId",
     "TaskNotFound", "IncorrectDateFormat", "InvalidColor"}

\* the last call was the command cmd
Call(cmd) == ncalls > 0 /\ command = Some(cmd)

\* C11: when create, rename, delete, setColor, setDueDate, setNote or sort (or show)
\* returns an error, the list is the same sequence of the same tasks as before the call
C11_NoPartialMutation ==
    (ncalls > 0 /\ command_result # "Ok") =>
        (command_result \in ArgErrors /\ tasks = before)

\* an error found after the id and the color were accepted, on a list with tasks
C11_Witness ==
    /\ Call("color")
    /\ command_result = "TooManyArgs"
    /\ args_iter = <<T_1, T_red, T_x>>
    /\ tasks = SampleTasks

\* the commands that take a task id as their first argument
IdCommands == {"show", "rename", "remove", "color", "due", "note"}

\* the last call was one of a command that takes a task id
IdCall == ncalls > 0 /\ unwrap(command) \in IdCommands

\* the three errors of the task id
IdErrors == {ArgMissing_task_id, "InvalidTaskId", "TaskNotFound"}

\* tok is a number in decimal digits, with or without a sign
IsNumber(tok) == tok # <<>> /\ AllDigits(IF Head(tok) \in {"+", "-"} THEN Tail(tok) ELSE tok)

\* the digits of the number tok without its sign and the zeros in front
Magnitude(tok) == StripZeros(IF Head(tok) \in {"+", "-"} THEN Tail(tok) ELSE tok)

\* the number tok is below 0
IsNegative(tok) == Head(tok) = "-" /\ Magnitude(tok) # <<>>

\* the number tok, not below 0, is greater than n
ExceedsLen(tok, n) == Len(Magnitude(tok)) > 9 \/ ParseNat(Magnitude(tok), 0) > n

\* the number tok is outside 1 .. n
OutsideRange(tok, n) == IsNegative(tok) \/ Magnitude(tok) = <<>> \/ ExceedsLen(tok, n)

\* the list after a successful call is the list before it but for the task at position id
AddressesTask(id) ==
    IF command = Some("remove") THEN tasks = remove(before, id)
    ELSE /\ Len(tasks) = Len(before)
         /\ \A k \in 1..Len(before) : k # id => tasks[k] = before[k]

\* C12 as claimed: no id gives ArgMissing, an id that is not a number InvalidTaskId,
\* every number outside 1 .. len TaskNotFound, and a number in 1 .. len none of the three
C12_IdErrorsByNumber ==
    IdCall =>
        IF args_iter = <<>> THEN command_result = ArgMissing_task_id
        ELSE LET tok == Head(args_iter)
             IN  IF ~IsNumber(tok) THEN command_result = "InvalidTaskId"
                 ELSE IF OutsideRange(tok, Len(before)) THEN command_result = "TaskNotFound"
                 ELSE command_result \notin IdErrors

\* C12: for show, rename, delete, setColor, setDueDate and setNote on a list of length
\* len: no id argument gives ArgMissing (task id); an id that is not an unsigned number
\* of the machine (digits, with or without a + in front, up to usize::MAX) gives
\* InvalidTaskId, which takes in the numbers below 0 and above usize::MAX; such a number
\* that is 0 or greater than len gives TaskNotFound; a number in 1 .. len gives none of
\* the three and a successful call changes no task but the one at that position
C12_IdErrors ==
    IdCall =>
        IF args_iter = <<>> THEN command_result = ArgMissing_task_id
        ELSE LET tok == Head(args_iter)
             IN  IF ~IsNumber(tok) \/ Head(tok) = "-" \/ ~FitsUsize(Magnitude(tok))
                 THEN command_result = "InvalidTaskId"
                 ELSE IF OutsideRange(tok, Len(before)) THEN command_result = "TaskNotFound"
                 ELSE /\ command_result \notin IdErrors
                      /\ command_result = "Ok" => AddressesTask(ParseNat(Magnitude(tok), 0))

\* 2^64 given as the id of a task of a list with tasks
C12_Witness ==
    /\ Call("rename")
    /\ args_iter = <<T_huge>>
    /\ command_result = "InvalidTaskId"
    /\ before = SampleTasks

\* the place of a color in the order Red < Yellow < Green < Blue < Purple
ColorRank(c) ==
    CASE c = "Red" -> 1 [] c = "Yellow" -> 2 [] c = "Green" -> 3 [] c = "Blue" -> 4
      [] c = "Purple" -> 5

\* a comes before b by the due date: a date before no date, the earlier date first
DueBefore(a, b) ==
    \/ is_some(a.due_date) /\ is_none(b.due_date)
    \/ is_some(a.due_date) /\ is_some(b.due_date)
          /\ DateLess(unwrap(a.due_date), unwrap(b.due_date))

\* a comes before b by the composite key: a color before no color, the colors in their
\* order, and the due date within a color
KeyBefore(a, b) ==
    \/ is_some(a.color) /\ is_none(b.color)
    \/ is_some(a.color) /\ is_some(b.color)
          /\ ColorRank(unwrap(a.color)) < ColorRank(unwrap(b.color))
    \/ a.color = b.color /\ DueBefore(a, b)

\* a and b tie on the whole key
KeyTie(a, b) == a.color = b.color /\ a.due_date = b.due_date

\* out holds the tasks of inp, each once, in the order of the composite key, and the
\* tasks that tie in the order they have in inp
SortedFrom(inp, out) ==
    /\ Len(out) = Len(inp)
    /\ \E p \in Permutations(1..Len(inp)) :
          /\ \A k \in 1..Len(inp) : out[k] = inp[p[k]]
          /\ \A k, l \in 1..Len(inp) :
                k < l => \/ KeyBefore(out[k], out[l])
                         \/ KeyTie(out[k], out[l]) /\ p[k] < p[l]

\* C13: a successful sort leaves a permutation of its input in the order of the
\* composite key (colored before uncolored, Red < Yellow < Green < Blue < Purple, within
\* a color dated before undated and the earlier date first), ties in their prior order
C13_SortByCompositeKey ==
    (Call("sort") /\ command_result = "Ok") => SortedFrom(before, tasks)

\* three tasks are put in another order, two of them tie and differ
C13_Witness ==
    /\ Call("sort")
    /\ command_result = "Ok"
    /\ Len(before) = 3
    /\ tasks # before
    /\ \E k \in 1..2 : KeyTie(tasks[k], tasks[k + 1]) /\ tasks[k] # tasks[k + 1]

\* C14: sort applied to the result of sort leaves the sequence as it is
C14_SortIdempotent ==
    (Call("sort") /\ command_result = "Ok") => sort_tasks(tasks, <<>>) = ArgOk(tasks)

\* a second sort, of a list that the first sort had put in another order
C14_Witness ==
    /\ Call("sort")
    /\ command_result = "Ok"
    /\ ncalls = 2
    /\ tasks = before
    /\ Len(tasks) = 3
    /\ \E k \in 1..2 : KeyTie(tasks[k], tasks[k + 1]) /\ tasks[k] # tasks[k + 1]
    /\ KeyBefore(tasks[1], tasks[3])

\* C15: create with an empty name fails with ArgMissing and leaves the list as it is;
\* create with a name X that is not empty, the arguments joined by single spaces, makes
\* the list longer by 1, leaves the tasks it had at their positions and appends a task
\* of name X without due date and color and with an empty note
C15_Create ==
    Call("add") =>
        LET X == join(args_iter, <<SPACE>>)
            len == Len(before)
        IN  IF X = <<>>
            THEN command_result = ArgMissing_task_name /\ tasks = before
            ELSE /\ command_result = "Ok"
                 /\ Len(tasks) = len + 1
                 /\ SubSeq(tasks, 1, len) = before
                 /\ tasks[len + 1] = [name |-> X, creation_date |-> Day2, due_date |-> None,
                                       color |-> None, note |-> <<>>]
                 /\ args_iter = <<T_x, T_1>> => X = <<"x", " ", "1">>

\* a task of a name of two arguments is added to a list of three tasks
C15_Witness ==
    /\ Call("add")
    /\ command_result = "Ok"
    /\ before = SampleTasks
    /\ Len(tasks) = 4
    /\ tasks[4].name = <<"x", " ", "1">>

\* the id given to the last call, a number in 1 .. Len(before)
GivenId == ParseNat(Magnitude(Head(args_iter)), 0)

\* C16: a successful delete(id) makes the list shorter by 1, removes the task at
\* position id, leaves the tasks at positions below id where they were and moves each
\* task at a position p above id to p - 1, all unchanged
C16_Delete ==
    (Call("remove") /\ command_result = "Ok") =>
        /\ GivenId \in 1..Len(before)
        /\ Len(tasks) = Len(before) - 1
        /\ \A p \in 1..(GivenId - 1) : tasks[p] = before[p]
        /\ \A p \in (GivenId + 1)..Len(before) : tasks[p - 1] = before[p]

\* the first of three tasks is deleted, and the two behind it move
C16_Witness ==
    /\ Call("remove")
    /\ command_result = "Ok"
    /\ args_iter = <<T_1>>
    /\ before = SampleTasks
    /\ tasks = <<SampleTasks[2], SampleTasks[3]>>

\* C17: setNote(id, "clear") leaves the note of the task empty whatever it was;
\* setNote(id, t) with another text t leaves t when the note was empty and the note, a
\* line break and t when it was not, so that "A" and then "B" leave "A\nB"; the text a
\* note has is lost by "clear" only
C17_Note ==
    (Call("note") /\ command_result = "Ok") =>
        LET t == join(Tail(args_iter), <<SPACE>>)
            prior == before[GivenId].note
            note == tasks[GivenId].note
        IN  /\ t = <<"c", "l", "e", "a", "r">> => note = <<>>
            /\ (t # <<"c", "l", "e", "a", "r">> /\ prior = <<>>) => note = t
            /\ (t # <<"c", "l", "e", "a", "r">> /\ prior # <<>>) => note = prior \o <<"\n">> \o t
            /\ (args_iter = <<T_1, T_y>> /\ prior = <<"x">>) => note = <<"x", "\n", "y">>

\* the notes x and then y are given to a task that had none
C17_Witness ==
    /\ Call("note")
    /\ command_result = "Ok"
    /\ ncalls = 2
    /\ args_iter = <<T_1, T_y>>
    /\ before[1].note = <<"x">>
    /\ tasks[1].note = <<"x", "\n", "y">>

\* C18: setColor(id, token) with a valid id and no further arguments sets the color
\* of the task to Red, Yellow, Green, Blue or Purple for the token red, yellow, green,
\* blue or purple, whatever color it had; unsets it for the token clear; and returns
\* InvalidColor and leaves the color for every other token, "Red" among them
C18_SetColor ==
    (Call("color") /\ Len(args_iter) = 2 /\ command_result \notin IdErrors) =>
        LET token == args_iter[2]
            color == tasks[GivenId].color
        IN  CASE token = T_red -> command_result = "Ok" /\ color = Some("Red")
              [] token = T_yellow -> command_result = "Ok" /\ color = Some("Yellow")
              [] token = T_green -> command_result = "Ok" /\ color = Some("Green")
              [] token = T_blue -> command_result = "Ok" /\ color = Some("Blue")
              [] token = T_purple -> command_result = "Ok" /\ color = Some("Purple")
              [] token = T_clear -> command_result = "Ok" /\ color = None
              [] OTHER -> command_result = "InvalidColor" /\ color = before[GivenId].color

\* the color Blue of a task gives way to Red
C18_Witness ==
    /\ Call("color")
    /\ command_result = "Ok"
    /\ args_iter = <<T_2, T_red>>
    /\ before[2].color = Some("Blue")
    /\ tasks[2].color = Some("Red")

\* the task t but for its field of the command cmd, which is that of the task u
WithFieldOf(cmd, t, u) ==
    CASE cmd = "rename" -> [t EXCEPT !.name = u.name]
      [] cmd = "color" -> [t EXCEPT !.color = u.color]
      [] cmd = "due" -> [t EXCEPT !.due_date = u.due_date]
      [] cmd = "note" -> [t EXCEPT !.note = u.note]

\* C19: a successful rename, setColor, setDueDate or setNote changes the name, the
\* color, the due date or the note of the task it addresses and nothing else: the list
\* keeps its length and order, the other tasks and the other fields of the task are as
\* before.  No call changes the creation date of a task: create keeps the tasks there
\* are and adds one behind them, delete takes one away, sort puts the same tasks in
\* another order, and every other call leaves each position its creation date.  Only
\* sort changes the order of the tasks
C19_Frame ==
    ncalls > 0 =>
        LET cmd == unwrap(command)
            ok == command_result = "Ok"
        IN  /\ (ok /\ cmd \in {"rename", "color", "due", "note"}) =>
                  /\ Len(tasks) = Len(before)
                  /\ \A k \in 1..Len(before) : k # GivenId => tasks[k] = before[k]
                  /\ tasks[GivenId] = WithFieldOf(cmd, before[GivenId], tasks[GivenId])
            /\ (ok /\ cmd = "add") => SubSeq(tasks, 1, Len(before)) = before
            /\ (ok /\ cmd = "remove") =>
                  \E id \in 1..Len(before) :
                      tasks = SubSeq(before, 1, id - 1) \o SubSeq(before, id + 1, Len(before))
            /\ (ok /\ cmd = "sort") =>
                  /\ Len(tasks) = Len(before)
                  /\ \E p \in Permutations(1..Len(before)) :
                        \A k \in 1..Len(before) : tasks[k] = before[p[k]]
            /\ (~ok \/ cmd \notin {"add", "remove", "sort"}) =>
                  /\ Len(tasks) = Len(before)
                  /\ \A k \in 1..Len(before) : tasks[k].creation_date = before[k].creation_date

\* a task with a due date, a color and a note is given another name, between two tasks
\* of another creation date
C19_Witness ==
    /\ Call("rename")
    /\ command_result = "Ok"
    /\ args_iter = <<T_2, T_y>>
    /\ before = SampleTasks
    /\ tasks = [SampleTasks EXCEPT ![2].name = <<"y">>]
    /\ tasks[2].creation_date # tasks[3].creation_date

\* C20: after any sequence of calls on a list that was empty, every task has a name
\* that is not empty
C20_NamesNonEmpty == \A k \in 1..Len(tasks) : tasks[k].name # <<>>

\* the list the running process loaded
Loaded == load_tasks(pre, <<>>).tasks

\* C21: a process whose command succeeds and leaves the list it loaded as it was (sort
\* of a sorted list, color clear of a task without color, and the like) makes no
\* backup and leaves the primary file and the backup files as they were
C21_SaveOnlyOnChange ==
    (pc = "exit" /\ command_result = "Ok" /\ command # Some("undo") /\ tasks = Loaded) =>
        fs = pre

\* C22: after any saves and rollbacks on a path that was empty, each carried out to
\* its end, the backups that exist are 000 .. k-1 without a gap and the primary file
\* exists when a backup does; a rollback returns BackupMissing when no backup exists
\* and only then
C22_GapFreeBackups ==
    LET k == Cardinality(Backups(fs.file))
    IN  /\ Backups(fs.file) = 0..(k - 1)
        /\ Backups(fs.file) # {} => exists(fs.file, filename)
        /\ lastOp = "rollback" => (result = "BackupMissing" <=> Backups(pre.file) = {})
        /\ lastOp = "rollback" => result \in {"Ok", "BackupMissing"}

\* a rollback finds a primary file and no backup, after a rollback that found some
C22_Witness ==
    /\ lastOp = "rollback"
    /\ result = "BackupMissing"
    /\ exists(fs.file, filename)
    /\ phase = "rolling"
    /\ nroll = 3
    /\ Len(saved) = 3

\* a successful rollback follows at once a successful save that found a primary file
SaveThenRollback ==
    /\ lastOp = "save"
    /\ result = "Ok"
    /\ exists(pre.file, filename)
    /\ lastOp' = "rollback"
    /\ result' = "Ok"

RECURSIVE RotatedDownTo(_, _)
\* the files after the passes max_undos - 1 down to i + 1 of the loop of create_backup
RotatedDownTo(files, i) ==
    IF i >= max_undos - 1 THEN files
    ELSE backup_shift(RotatedDownTo(files, i + 1), i + 1).files

\* create_dir or a rename of create_backup fails in this step
RotationFails ==
    /\ lastOp = "save"
    /\ pc \in {"mkdir", "backup", "newest"}
    /\ result' \in {"CreateDir", "Io"}

\* C24: when create_dir or a rename of the rotation fails, save_file returns the error,
\* CreateDir or Io, at once: the process ends without another rename and without
\* writing the new text, the renames made before stay as they are, and the primary
\* file is the one the process found
C24_FailedRotation ==
    [][/\ RotationFails =>
             /\ pc' = "exit"
             /\ result' = (IF pc = "mkdir" THEN "CreateDir" ELSE "Io")
             /\ fs' = fs
             /\ fs.dir = (pc # "mkdir" \/ pre.dir)
             /\ fs.file = (CASE pc = "mkdir" -> pre.file
                              [] pc = "backup" -> RotatedDownTo(pre.file, loop_i)
                              [] pc = "newest" -> RotatedDownTo(pre.file, -1))
             /\ fs.file[filename] = pre.file[filename]
       /\ pc = "exit" => fs' = fs]_vars

\* the rename of backup 008 failed: 009 had become 010, 008 and the newer backups and
\* the primary file are where they were
C24_Witness ==
    /\ pc = "exit"
    /\ lastOp = "save"
    /\ result = "Io"
    /\ loop_i = 8
    /\ exists(pre.file, with_extension(9))
    /\ fs.file[with_extension(10)] = pre.file[with_extension(9)]
    /\ ~exists(fs.file, with_extension(9))
    /\ \A p \in Paths : p <= 8 => fs.file[p] = pre.file[p]
    /\ exists(fs.file, filename)

\* the primary file exists and cannot be decoded
Undecodable(f) == exists(f.file, filename) /\ load_tasks(f, <<>>).result = "Deserialize"

\* C25: a process that finds a primary file it cannot decode ends with the error of
\* load_tasks before it reads its command, undo or another, and leaves the primary file
\* and the backups as they are; so does every process after it
C25_CorruptPrimaryStays ==
    [][(Undecodable(fs) /\ pc \in {"load", "exit"}) =>
          /\ fs' = fs
          /\ pc' \in {"load", "exit"}
          /\ pc = "load" => result' \in {"Deserialize", "Killed"}]_vars

\* the second process in a row ends with the error, a backup being there
C25_Witness ==
    /\ pc = "exit"
    /\ result = "Deserialize"
    /\ Undecodable(fs)
    /\ fs.file[filename].state = "partial"
    /\ exists(fs.file, with_extension(0))
    /\ fs = pre
    /\ runs = 3

\* tok writes a whole number above 0
IsPositiveInteger(tok) == IsNumber(tok) /\ Head(tok) # "-" /\ Magnitude(tok) # <<>>

\* tok writes an unsigned number of the machine: digits, with or without a + in front,
\* up to usize::MAX
IsUsize(tok) == IsNumber(tok) /\ Head(tok) # "-" /\ FitsUsize(Magnitude(tok))

\* C27 as claimed: an id that is not a whole number above 0, the token 0 and the numbers
\* below 0 among them, gives InvalidTaskId, and TaskNotFound is given only for a whole
\* number above 0 that is greater than len
C27_ZeroIsInvalid ==
    (IdCall /\ args_iter # <<>>) =>
        LET tok == Head(args_iter)
        IN  /\ ~IsPositiveInteger(tok) => command_result = "InvalidTaskId"
            /\ command_result = "TaskNotFound" =>
                  IsPositiveInteger(tok) /\ ExceedsLen(tok, Len(before))

\* C27: an id is rejected with InvalidTaskId exactly when it is not an unsigned number
\* of the machine, which takes in the numbers below 0 but not the token 0; it is
\* rejected with TaskNotFound exactly when it is such a number and is 0 or greater than
\* len; the list is left as it was in both cases
C27_IdRejections ==
    (IdCall /\ args_iter # <<>>) =>
        LET tok == Head(args_iter)
        IN  /\ command_result = "InvalidTaskId" <=> ~IsUsize(tok)
            /\ command_result = "TaskNotFound" <=>
                  IsUsize(tok) /\ (Magnitude(tok) = <<>> \/ ExceedsLen(tok, Len(before)))
            /\ command_result \in {"InvalidTaskId", "TaskNotFound"} => tasks = before

\* 0 given as the id of a task to delete from a list with tasks
C27_Witness ==
    /\ Call("remove")
    /\ args_iter = <<T_0>>
    /\ command_result = "TaskNotFound"
    /\ before = SampleTasks
    /\ tasks = SampleTasks

\* no process is between its load and its exit
Quiescent == \A p \in DOMAIN procs : procs[p].pc \in {"load", "exit"}

\* a rename of the rotation of process p failed: the file it had found was gone
RenameFailed(p) ==
    procs[p].pc = "exit" /\ procs[p].result = "Io" /\ procs[p].at \in {"rename", "move"}

\* a generation that was stored when the processes began is in no file any more
GenerationLost ==
    \E q \in Paths : exists(pre.file, q) /\ \A r \in Paths : fs.file[r] # pre.file[q]

\* the file decodes to a collection with a task of this name
HasTask(file, name) ==
    /\ file.state = "complete"
    /\ is_some(from_str(file.doc))
    /\ \E k \in 1..Len(file.doc) : unwrap(from_str(file.doc))[k].name = name

\* process p returned from a successful save and, no process running, the primary file
\* is without its task
LostUpdate(p) ==
    /\ Quiescent
    /\ procs[p].pc = "exit"
    /\ procs[p].result = "Ok"
    /\ ~HasTask(fs.file[filename], RaceName(p))

\* one of the three corruptions
Corrupted == GenerationLost \/ \E p \in DOMAIN procs : RenameFailed(p) \/ LostUpdate(p)

\* the file system after the saves of the two processes, o after p, one after the other
Serial(p, o) ==
    LET loaded == IF saved = <<>> THEN <<>> ELSE saved[Len(saved)]
        first == create_task(loaded, <<RaceName(p)>>, Day1).tasks
        second == create_task(first, <<RaceName(o)>>, Day1).tasks
    IN  FsAfter(saved \o <<first, second>>)

\* C26: two processes on one path, nothing keeping one out while the other runs: a
\* failed rename of the rotation, a lost generation and a successful change missing
\* from the primary file come about only when the steps of the two were interleaved;
\* run one after the other, both return Ok and leave the files of two saves in a row
C26_CorruptionNeedsOverlap ==
    procs # NoProcs =>
        /\ Corrupted => concurrent
        /\ (~concurrent /\ \A p \in Procs : procs[p].pc = "exit") =>
              /\ \A p \in Procs : procs[p].result = "Ok"
              /\ fs \in {Serial(1, 2), Serial(2, 1)}

\* both processes returned Ok, the primary file is without the task of process 1 and
\* the generation that was backup 000 is gone
C26_Witness ==
    /\ procs # NoProcs
    /\ \A p \in Procs : procs[p].pc = "exit" /\ procs[p].result = "Ok"
    /\ LostUpdate(1)
    /\ HasTask(fs.file[filename], RaceName(2))
    /\ exists(pre.file, with_extension(0))
    /\ \A r \in Paths : fs.file[r] # pre.file[with_extension(0)]

====
